---- MODULE Spec2Model ----
(***************************************************************************)
(* Zero-trust login of the FinSight dashboard: the capture and submit      *)
(* logic of LoginPage.jsx, the route guard of ProtectedRoute.jsx, the      *)
(* polling client of RealtimeEventsPanel.jsx with the api/auth.js          *)
(* wrappers, and the backend (scorer, access decision, event store,        *)
(* recent-events read) that the frontend talks to.  The backend sources    *)
(* are not part of the tree under src/, so the backend definitions follow  *)
(* the written specification; everything else follows the JavaScript.      *)
(*                                                                         *)
(* Numbers: a typing speed is a rational <<num, den>> with den > 0, since  *)
(* JavaScript computes it in floating point and only its position with     *)
(* respect to 30 and 150 matters.  Timestamps are integers (milliseconds). *)
(* A string that is built by join("-") is a sequence of one-character      *)
(* strings, so that splitting it again is a computation.                   *)
(***************************************************************************)
EXTENDS Integers, Sequences, FiniteSets, TLC

\* ------------------------------------------------------------------ bounds
\* keystrokes that the key handler records before the model stops typing
MaxKeys == 1
\* characters of a password typed into the form
MaxPwd == 1
\* login requests sent during one behaviour, and submissions of one page visit
MaxRequests == 2
\* length of the long keystroke runs drawn as capture inputs (more than
\* the 10 values generateChallengeSequence keeps, plus the first keystroke)
LongRun == 12

\* ------------------------------------------------------------ JS values
\* null / undefined of a timestamp or a count
NullNum == -1
\* null / undefined of a string
NullStr == "null"
\* result of parseInt on a string without leading digits
NaN == -2

\* values Date.now() yields in the handlers (any order: the clock may stand
\* still or step back between two events)
Times == {1000, 1150, 1700}

\* the values among them that the form handlers of one page visit see
HandlerTimes == {1000, 1150}

\* ------------------------------------------------------------ rationals
Rat(n, d) == <<n, d>>

RLeq(a, b) == a[1] * b[2] <= b[1] * a[2]

\* mutant of MathMin: the ceiling is not applied
MathMinNoCeiling(a, b) == b

\* mutant of MathMax: the lower clamp is dropped
MathMaxNoFloor(a, b) == b

\* Math.max(a, b)
MathMax(a, b) == IF RLeq(a, b) THEN b ELSE a

\* Math.min(a, b)
MathMin(a, b) == IF RLeq(a, b) THEN a ELSE b

\* JavaScript truthiness of a timestamp (null and 0 are falsy)
Truthy(t) == t # NullNum /\ t # 0

\* --------------------------------------------------------------- state
VARIABLES
    location,        \* current route: "/login" or "/" (any protected route)
    localStorage,    \* [authToken, finsightCurrentUser]
    env,             \* [language, timeZone, tabCount]: what the platform lookups yield
    lp,              \* LoginPage: "unmounted", "effect" (rendered, mount effect pending), "ready"
    username,        \* LoginPage username state
    password,        \* LoginPage password state, a sequence of characters
    loginMetrics,    \* LoginPage loginMetrics state
    error,           \* LoginPage error state
    loading,         \* LoginPage loading state
    loginAttempts,   \* loginAttemptsRef.current
    loginReq,        \* login request in flight, or NoMsg
    loginRes,        \* login response in flight, or NoMsg
    reqCount,        \* login requests sent so far
    pr,              \* ProtectedRoute: "unmounted", "effect", "checking", "done"
    prToken,         \* token read by checkAuth
    prCheck,         \* outcome of await getCurrentUser(): "none", "pending", "ok", "failed"
    isAuthenticated, \* ProtectedRoute state: "null", "true", "false"
    prLoading,       \* ProtectedRoute loading state
    sessions,        \* backend: credentials that /api/auth/me accepts
    scoreFirst,      \* backend policy: score the attempt before checking the credentials
    modelAvailable,  \* backend: the trained classifier artifact is present
    nextId,          \* backend: next surrogate key of the event store
    eventStore,      \* backend: sequence of LoginEvent
    writers,         \* backend: the record() call of each concurrent request handler
    now,             \* the clock, in the model's time unit
    panel,           \* RealtimeEventsPanel: "unmounted", "effect" (mount effect pending), "polling"
    events,          \* RealtimeEventsPanel events state, newest first
    lastUpdate,      \* RealtimeEventsPanel lastUpdate state
    lastFire,        \* time of the last loadEvents call (mount or interval)
    burst,           \* events recorded since the last loadEvents call
    pollSeq,         \* loadEvents calls so far
    pollReqs,        \* recent-events requests in flight
    pollRes,         \* recent-events responses in flight
    seenIds,         \* ids of the events that were ever put into `events`
    lastMerge,       \* the last merge: its poll, the newest poll merged, known and new items
    keyEvent,        \* the key event last handed to detectCapsLock, or NoKey
    ztPanel,         \* ZeroTrustPanel: "unmounted" or "mounted"
    ztUsers,         \* ZeroTrustPanel users state: usernames in listed order
    selectedUser,    \* ZeroTrustPanel selectedUser state ("" for none)
    ztLoading,       \* ZeroTrustPanel loading state
    lastResult,      \* ZeroTrustPanel lastResult state: its user, or NullStr
    ztLoads,         \* loadData calls of the mount effect and its interval in flight
    ztSubmit,        \* the onSubmitLogin call in flight, or NoSubmit
    dept,            \* DepartmentDashboard: the :dept route parameter, NullStr when unmounted
    stats,           \* DepartmentDashboard stats state: the department it was fetched for
    history,         \* DepartmentDashboard history state: the department of each sample
    recommendations, \* DepartmentDashboard recommendations state: status per recommendation
    deploying,       \* DepartmentDashboard deploying state: a recommendation id or NullNum
    alert,           \* DepartmentDashboard alert state: "null", "success", "error"
    statsCalls,      \* fetchStats calls in flight, per department they were issued for
    recsCalls,       \* fetchRecs calls in flight
    deployCalls,     \* handleDeploy calls in flight, per recommendation and await
    insights,        \* InsightsPage: "unmounted" or "mounted"
    budget,          \* InsightsPage budget state
    insLoading,      \* InsightsPage loading state
    summary,         \* InsightsPage summary, role, story and heatmap states: the budget
                     \* they were loaded for, or NullNum
    loadStep,        \* the await (1..LoadRequests) the loadInsights call in flight is at, or 0
    loadBudget,      \* the argument of the loadInsights call in flight
    feedbackRating,  \* InsightsPage feedbackRating state (0 for null)
    feedbackSubmitted, \* InsightsPage feedbackSubmitted state
    feedbackPending, \* submitFeedback calls in flight
    feedbackSaved    \* submitFeedback calls that succeeded

loginVars == <<lp, username, password, loginMetrics, error, loading, loginAttempts>>
netVars == <<loginReq, loginRes, reqCount>>
routeVars == <<pr, prToken, prCheck, isAuthenticated, prLoading>>
backendVars == <<sessions, scoreFirst, modelAvailable, nextId, eventStore, writers>>
pollVars == <<now, panel, events, lastUpdate, lastFire, burst, pollSeq, pollReqs, pollRes,
              seenIds, lastMerge>>
\* the application and the backend, without the pages under ProtectedRoute
appStateButPages == <<location, localStorage, env, loginVars, netVars, routeVars,
                      backendVars>>
typingVars == <<keyEvent>>
ztVars == <<ztPanel, ztUsers, selectedUser, ztLoading, lastResult, ztLoads, ztSubmit>>
deptVars == <<dept, stats, history, recommendations, deploying, alert, statsCalls, recsCalls,
              deployCalls>>
insVars == <<insights, budget, insLoading, summary, loadStep, loadBudget, feedbackRating,
             feedbackSubmitted, feedbackPending, feedbackSaved>>
pageVars == <<typingVars, ztVars, deptVars, insVars>>
vars == <<location, localStorage, env, loginVars, netVars, routeVars, backendVars, pollVars,
          pageVars>>

NoKey == [keyCode |-> 0, shiftKey |-> FALSE, capsLock |-> "undefined"]

Depts == {"HR", "IT"}
RecIds == {1, 2}
NoRecommendations == [r \in RecIds |-> "none"]
NoCalls == [r \in RecIds |-> [deploy |-> 0, recs |-> 0]]

\* the state of the pages under ProtectedRoute before any of them is used

\* DepartmentDashboard is not in the tree
DepartmentUnmounted ==
    /\ dept = NullStr
    /\ stats = NullStr
    /\ history = <<>>
    /\ recommendations = NoRecommendations
    /\ deploying = NullNum
    /\ alert = "null"
    /\ statsCalls = [d \in Depts |-> 0]
    /\ recsCalls = 0
    /\ deployCalls = NoCalls

NoSubmit == [phase |-> "none", user |-> "", users |-> <<>>, stale |-> FALSE]

\* InsightsPage is not in the tree
InsightsUnmounted ==
    /\ insights = "unmounted"
    /\ budget = 3000
    /\ insLoading = FALSE
    /\ summary = NullNum
    /\ loadStep = 0
    /\ loadBudget = NullNum
    /\ feedbackRating = 0
    /\ feedbackSubmitted = FALSE
    /\ feedbackPending = 0
    /\ feedbackSaved = 0

\* ZeroTrustPanel is not in the tree and none of its calls is in flight
ZeroTrustUnmounted ==
    /\ ztPanel = "unmounted"
    /\ ztUsers = <<>>
    /\ selectedUser = ""
    /\ ztLoading = FALSE
    /\ lastResult = NullStr
    /\ ztLoads = 0
    /\ ztSubmit = NoSubmit

InitPages ==
    /\ keyEvent = NoKey
    /\ ZeroTrustUnmounted
    /\ DepartmentUnmounted
    /\ InsightsUnmounted

NoMsg == [kind |-> "none"]

\* request handlers of the backend that may call record() at the same time
MaxWriters == 2
\* record() calls of one handler
MaxAppends == 3

Writers == 1..MaxWriters

\* no record() call has begun
IdleWriters == [w \in Writers |-> [pc |-> "idle", id |-> 0, after |-> 0, done |-> 0]]

\* a string JavaScript treats as false in `x || fallback`
FalsyStr(s) == s = NullStr \/ s = ""

\* ---------------------------------------------------------------- inputs
Users == {"alice"}

\* characters of a password: a letter and one of the punctuation class
Chars == {"a", "!"}

RECURSIVE SeqsUpTo(_, _)
SeqsUpTo(S, n) ==
    IF n = 0 THEN {<<>>}
    ELSE LET shorter == SeqsUpTo(S, n - 1)
         IN  shorter \cup {Append(q, x) : q \in {r \in shorter : Len(r) = n - 1}, x \in S}

Passwords == SeqsUpTo(Chars, MaxPwd)

\* key events of the two fields: keyCode of the A key, of F1 (112, which
\* String.fromCharCode turns into "p") and of the digit 1;
\* capsLock is what getModifierState("CapsLock") yields, "undefined" when
\* the event has no getModifierState
KeyEvents == [keyCode : {65, 112, 49}, shiftKey : BOOLEAN, capsLock : {"true", "false", "undefined"}]

\* what navigator.language yields ("" stands for undefined, "throws" for a
\* lookup that raises)
Languages == {"en-US", "fr-FR", "", "throws"}

\* what Intl.DateTimeFormat().resolvedOptions().timeZone yields
TimeZones == {"Asia/Colombo", "", "throws"}

\* what localStorage holds under browserTabCount
TabCounts == {NullStr, "3", "abc"}

\* a platform on which every lookup succeeds
NominalEnv == [language |-> "fr-FR", timeZone |-> "Asia/Colombo", tabCount |-> "3"]

\* ------------------------------------------------- LoginPage: pure parts
RMul(a, b) == <<a[1] * b[1], a[2] * b[2]>>

\* a / b for b > 0
RDiv(a, b) == <<a[1] * b[2], a[2] * b[1]>>

Min(a, b) == IF a <= b THEN a ELSE b

Max(a, b) == IF a >= b THEN a ELSE b

\* useState initial value of loginMetrics (browser_tab_count is not a field
\* of the initial object: NullNum)
InitialLoginMetrics ==
    [password_length |-> 0, typing_start |-> NullNum, typing_end |-> NullNum,
     keystrokes |-> <<>>, caps_lock_detected |-> FALSE, browser_tabs |-> 1,
     keyboard_language |-> "EN", browser_tab_count |-> NullNum]

\* words / duration * 60 clamped to [30, 150]; ms is the duration in
\* milliseconds, already known to be positive
ClampedWpm(len, ms) ==
    LET duration == RDiv(Rat(ms, 1), Rat(1000, 1))
        words == RDiv(Rat(len, 1), Rat(5, 1))
        wpm == RMul(RDiv(words, duration), Rat(60, 1))
    IN  MathMax(Rat(30, 1), MathMin(Rat(150, 1), wpm))

calculateTypingSpeed(lm, pwd) ==
    LET ks == lm.keystrokes
    IN  IF Len(ks) < 2
        THEN IF /\ Truthy(lm.typing_start)
                /\ Truthy(lm.typing_end)
                /\ lm.typing_end - lm.typing_start > 0
             THEN ClampedWpm(Len(pwd), lm.typing_end - lm.typing_start)
             ELSE Rat(60, 1)
        ELSE IF ks[Len(ks)].timestamp - ks[1].timestamp <= 0
             THEN Rat(60, 1)
             ELSE ClampedWpm(Len(pwd), ks[Len(ks)].timestamp - ks[1].timestamp)

\* /[!@#$%^&*()_+\-=\[\]{}|;:,.<>?]/.test(password)
analyzePassword(pwd) ==
    [length |-> Len(pwd), has_special |-> \E i \in 1..Len(pwd) : pwd[i] = "!"]

\* Math.min(Math.max(Math.floor(interval / 50), 1), 9); \div rounds toward
\* minus infinity, as Math.floor does
NormalizeInterval(interval) == Min(Max(interval \div 50, 1), 9)

\* the loop of generateChallengeSequence
Intervals(ks) ==
    [i \in 1..(Len(ks) - 1) |-> NormalizeInterval(ks[i + 1].timestamp - ks[i].timestamp)]

\* mutant of Slice10: nothing is cut
SliceAll(s) == s

\* intervals.slice(0, 10)
Slice10(s) == SubSeq(s, 1, Min(Len(s), 10))

\* String(n) of a number 1..9 as the code can produce it
DigitChar(n) == <<"1", "2", "3", "4", "5", "6", "7", "8", "9">>[n]

\* Array.prototype.join("-") as a sequence of characters
RECURSIVE JoinDash(_)
JoinDash(s) ==
    IF Len(s) = 0 THEN <<>>
    ELSE IF Len(s) = 1 THEN <<DigitChar(s[1])>>
    ELSE <<DigitChar(s[1]), "-">> \o JoinDash(Tail(s))

\* mutant of generateChallengeSequence: one token "1" stands in when fewer
\* than 2 keystrokes were recorded
generateChallengeSequencePadded(lm) ==
    IF Len(lm.keystrokes) < 2
    THEN <<"1">>
    ELSE JoinDash(Slice10(Intervals(lm.keystrokes)))

generateChallengeSequence(lm) ==
    IF Len(lm.keystrokes) < 2
    THEN <<>>
    ELSE JoinDash(Slice10(Intervals(lm.keystrokes)))

\* lang.split("-")[0].toUpperCase() on the locales of Languages
PrimarySubtagUpper(lang) ==
    CASE lang = "en-US" -> "EN"
      [] lang = "fr-FR" -> "FR"
      [] OTHER -> ""

detectKeyboardLanguage(language) ==
    IF language = "throws"
    THEN "EN"
    ELSE LET lang == IF FalsyStr(language) THEN "en-US" ELSE language
             langCode == PrimarySubtagUpper(lang)
         IN  IF langCode = "EN" THEN "EN" ELSE langCode

\* parseInt(tabCount, 10) on the values of TabCounts
ParseInt(str) ==
    CASE str = "3" -> 3
      [] str = "0" -> 0
      [] OTHER -> NaN

detectBrowserTabs(tabCount) ==
    IF ~FalsyStr(tabCount) /\ ParseInt(tabCount) # NaN /\ ParseInt(tabCount) > 0
    THEN ParseInt(tabCount)
    ELSE 1

\* caps_lock_detected after detectCapsLock(e): the three functional
\* updates are applied in the order the handler queues them
detectCapsLock(caps, e) ==
    LET afterSignal == IF e.capsLock = "undefined" THEN caps ELSE e.capsLock = "true"
        upper == e.keyCode >= 65 /\ e.keyCode <= 90
        lower == e.keyCode >= 97 /\ e.keyCode <= 122
    IN  IF upper /\ ~e.shiftKey THEN TRUE
        ELSE IF lower /\ e.shiftKey THEN FALSE
        ELSE afterSignal

\* the zeroTrustMetrics object of handleSubmit; tz is a timeZone that did
\* not throw
zeroTrustMetrics(lm, pwd, attempts, tz) ==
    [password_length |-> analyzePassword(pwd).length,
     used_special_characters |-> IF analyzePassword(pwd).has_special THEN "yes" ELSE "no",
     keyboard_language |-> lm.keyboard_language,
     login_attempts |-> attempts,
     was_capslock_on |-> IF lm.caps_lock_detected THEN "yes" ELSE "no",
     browser_tab_count |-> lm.browser_tabs,
     challenge_sequence |-> generateChallengeSequence(lm),
     timezone |-> IF FalsyStr(tz) THEN "UTC+0" ELSE tz,
     typing_speed_wpm |-> calculateTypingSpeed(lm, pwd)]

\* the catch block of handleSubmit: the message shown for a rejection with
\* HTTP status `status` (0: no response at all) and body detail `detail`
loginErrorMessage(status, detail) ==
    IF status = 403
    THEN IF FalsyStr(detail) THEN "Login blocked: High risk detected" ELSE detail
    ELSE IF FalsyStr(detail) THEN "Invalid username or password" ELSE detail

\* ------------------------------------------------ backend (from the spec)
\* classifier outputs, in hundredths
BaseScores == {0, 33, 34, 69, 70, 100}

\* detail field of a rejection body
Details == {NullStr, "rejected by policy"}

\* heuristic overrides: a floor on the score, with the reasons they add
HeuristicFloor(payload) ==
    IF RLeq(Rat(150, 1), payload.typing_speed_wpm) THEN 100 ELSE 0

HeuristicReasons(payload) ==
    (IF RLeq(Rat(150, 1), payload.typing_speed_wpm) THEN {"unusually_fast_typing"} ELSE {})
        \cup (IF payload.used_special_characters = "no" THEN {"no_special_characters"} ELSE {})

\* mutant of RiskLevel: 0.34 itself is still low
RiskLevelInclusive(score) ==
    IF score <= 34 THEN "low" ELSE IF score < 70 THEN "medium" ELSE "high"

\* score < 0.34 low, 0.34 <= score < 0.7 medium, score >= 0.7 high
RiskLevel(score) ==
    IF score < 34 THEN "low" ELSE IF score < 70 THEN "medium" ELSE "high"

\* base score, then heuristic floor; heuristics alone when the classifier
\* is unavailable
Assess(payload, base, available) ==
    LET score == Max(IF available THEN base ELSE 0, HeuristicFloor(payload))
    IN  [risk_score |-> score,
         risk_level |-> RiskLevel(score),
         reasons |-> HeuristicReasons(payload)
                        \cup (IF available THEN {} ELSE {"heuristic_fallback"})]

\* access decision policy: low -> allow, medium -> allow, high -> deny
Decide(level) == IF level = "high" THEN "denied" ELSE "allowed"

\* mutant of Record: a denied attempt leaves no event
RecordAllowedOnly(store, event) ==
    IF event.outcome = "denied" THEN store ELSE Append(store, event)

\* Event Store record(event): always a new row
Record(store, event) == Append(store, event)

\* ----------------------------------------------------------- navigation
\* LoginPage leaves the tree: its state is discarded
UnmountLogin ==
    /\ lp' = "unmounted"
    /\ username' = ""
    /\ password' = <<>>
    /\ loginMetrics' = InitialLoginMetrics
    /\ error' = ""
    /\ loading' = FALSE
    /\ loginAttempts' = 0

\* LoginPage is rendered with its useState / useRef initial values
MountLogin ==
    /\ lp' = "effect"
    /\ username' = ""
    /\ password' = <<>>
    /\ loginMetrics' = InitialLoginMetrics
    /\ error' = ""
    /\ loading' = FALSE
    /\ loginAttempts' = 0

UnmountRoute ==
    /\ pr' = "unmounted"
    /\ prToken' = NullNum
    /\ prCheck' = "none"
    /\ isAuthenticated' = "null"
    /\ prLoading' = TRUE

\* ProtectedRoute is rendered with isAuthenticated = null, loading = true
MountRoute ==
    /\ pr' = "effect"
    /\ prToken' = NullNum
    /\ prCheck' = "none"
    /\ isAuthenticated' = "null"
    /\ prLoading' = TRUE

\* ZeroTrustPanel leaves the tree: its state is discarded and its interval
\* cleared.  Calls in flight still complete, but their setState calls no
\* longer change anything; the only step left with an effect is the
\* localStorage write that follows `await zeroTrustLogin`.
UnmountZeroTrust ==
    /\ ztPanel' = "unmounted"
    /\ ztUsers' = <<>>
    /\ selectedUser' = ""
    /\ ztLoading' = FALSE
    /\ lastResult' = NullStr
    /\ ztLoads' = 0
    /\ ztSubmit' = IF ztSubmit.phase = "login" THEN [ztSubmit EXCEPT !.stale = TRUE]
                   ELSE NoSubmit

\* the children of ProtectedRoute leave the tree
\* DepartmentDashboard leaves the tree: its state is discarded, its
\* interval cleared, and what its calls in flight set is set on nothing
UnmountDepartment ==
    /\ dept' = NullStr
    /\ stats' = NullStr
    /\ history' = <<>>
    /\ recommendations' = NoRecommendations
    /\ deploying' = NullNum
    /\ alert' = "null"
    /\ statsCalls' = [d \in Depts |-> 0]
    /\ recsCalls' = 0
    /\ deployCalls' = NoCalls

\* InsightsPage leaves the tree: its state is discarded and what its calls
\* in flight set is set on nothing; feedback already saved stays saved
UnmountInsights ==
    /\ insights' = "unmounted"
    /\ budget' = 3000
    /\ insLoading' = FALSE
    /\ summary' = NullNum
    /\ loadStep' = 0
    /\ loadBudget' = NullNum
    /\ feedbackRating' = 0
    /\ feedbackSubmitted' = FALSE
    /\ feedbackPending' = 0
    /\ feedbackSaved' = 0

UnmountChildren ==
    /\ UnmountZeroTrust
    /\ UnmountDepartment
    /\ UnmountInsights

\* navigate("/"): the /* route renders ProtectedRoute
NavigateToDashboard ==
    /\ location' = "/"
    /\ UnmountLogin
    /\ IF pr = "unmounted" THEN MountRoute ELSE UNCHANGED routeVars

\* navigate("/login") or <Navigate to="/login">
NavigateToLogin ==
    /\ location' = "/login"
    /\ UnmountRoute
    /\ IF lp = "unmounted" THEN MountLogin ELSE UNCHANGED loginVars

\* ------------------------------------------------------ LoginPage actions
\* the mount effect: redirect when a token is stored, otherwise record the
\* keyboard language and the tab count
LoginPageEffect ==
    /\ UNCHANGED <<pollVars, pageVars>>
    /\ lp = "effect"
    /\ IF localStorage.authToken # NullNum
       THEN NavigateToDashboard
       ELSE /\ loginMetrics' = [loginMetrics EXCEPT
                     !.keyboard_language = detectKeyboardLanguage(env.language),
                     !.browser_tab_count = detectBrowserTabs(env.tabCount)]
            /\ lp' = "ready"
            /\ UNCHANGED <<location, username, password, error, loading, loginAttempts, routeVars>>
    /\ UNCHANGED <<localStorage, env, netVars, backendVars>>

\* onChange of the username field
setUsername ==
    /\ UNCHANGED <<pollVars, pageVars>>
    /\ lp = "ready"
    /\ \E u \in Users \cup {""} :
         /\ u # username
         /\ username' = u
    /\ UNCHANGED <<location, localStorage, env, lp, password, loginMetrics, error, loading,
                   loginAttempts, netVars, routeVars, backendVars>>

\* onKeyDown of the username field is detectCapsLock itself
usernameKeyDown ==
    /\ UNCHANGED <<pollVars, ztVars, deptVars, insVars>>
    /\ lp = "ready"
    /\ \E e \in KeyEvents :
         /\ keyEvent' = e
         /\ loginMetrics' = [loginMetrics EXCEPT
                !.caps_lock_detected = detectCapsLock(loginMetrics.caps_lock_detected, e)]
    /\ UNCHANGED <<location, localStorage, env, lp, username, password, error, loading,
                   loginAttempts, netVars, routeVars, backendVars>>

handlePasswordKeyDown ==
    /\ UNCHANGED <<pollVars, ztVars, deptVars, insVars>>
    /\ lp = "ready"
    /\ Len(loginMetrics.keystrokes) < MaxKeys
    /\ \E e \in KeyEvents, timestamp \in HandlerTimes :
         /\ keyEvent' = e
         /\ loginMetrics' = [loginMetrics EXCEPT
                !.caps_lock_detected = detectCapsLock(loginMetrics.caps_lock_detected, e),
                !.keystrokes = Append(loginMetrics.keystrokes, [timestamp |-> timestamp])]
    /\ UNCHANGED <<location, localStorage, env, lp, username, password, error, loading,
                   loginAttempts, netVars, routeVars, backendVars>>

handlePasswordKeyUp ==
    /\ UNCHANGED <<pollVars, ztVars, deptVars, insVars>>
    /\ lp = "ready"
    /\ \E e \in KeyEvents :
         /\ keyEvent' = e
         /\ loginMetrics' = [loginMetrics EXCEPT
                !.caps_lock_detected = detectCapsLock(loginMetrics.caps_lock_detected, e)]
    /\ UNCHANGED <<location, localStorage, env, lp, username, password, error, loading,
                   loginAttempts, netVars, routeVars, backendVars>>

handlePasswordChange ==
    /\ UNCHANGED <<pollVars, pageVars>>
    /\ lp = "ready"
    /\ \E value \in Passwords, dateNow \in HandlerTimes :
         /\ value # password
         /\ password' = value
         /\ loginMetrics' = [loginMetrics EXCEPT
                !.typing_start = IF Truthy(loginMetrics.typing_start)
                                 THEN loginMetrics.typing_start ELSE dateNow,
                !.password_length = Len(value)]
    /\ UNCHANGED <<location, localStorage, env, lp, username, error, loading,
                   loginAttempts, netVars, routeVars, backendVars>>

handlePasswordBlur ==
    /\ UNCHANGED <<pollVars, pageVars>>
    /\ lp = "ready"
    /\ Truthy(loginMetrics.typing_start)
    /\ \E dateNow \in HandlerTimes :
         /\ dateNow # loginMetrics.typing_end
         /\ loginMetrics' = [loginMetrics EXCEPT !.typing_end = dateNow]
    /\ UNCHANGED <<location, localStorage, env, lp, username, password, error, loading,
                   loginAttempts, netVars, routeVars, backendVars>>

\* handleSubmit up to `await login(...)`.  The submit button is disabled
\* while loading or with an empty username or password.  A timeZone lookup
\* that throws is caught by the handler's own catch block: no request is
\* sent, the message of the non-403 branch is shown, finally clears loading.
handleSubmit ==
    /\ UNCHANGED <<pollVars, pageVars>>
    /\ lp = "ready"
    /\ ~loading
    /\ username # ""
    /\ password # <<>>
    /\ reqCount < MaxRequests
    /\ loginAttempts < MaxRequests
    /\ loginAttempts' = loginAttempts + 1
    /\ IF env.timeZone = "throws"
       THEN /\ error' = loginErrorMessage(0, NullStr)
            /\ loading' = FALSE
            /\ UNCHANGED netVars
       ELSE /\ error' = ""
            /\ loading' = TRUE
            /\ loginReq' = [kind |-> "login",
                            rid |-> reqCount + 1,
                            username |-> username,
                            password |-> password,
                            payload |-> zeroTrustMetrics(loginMetrics, password,
                                                         loginAttempts + 1, env.timeZone)]
            /\ reqCount' = reqCount + 1
            /\ UNCHANGED loginRes
    /\ UNCHANGED <<location, localStorage, env, lp, username, password, loginMetrics,
                   routeVars, backendVars>>

\* handleSubmit after `await login(...)` returned: store the credential and
\* the user, go to the dashboard
LoginResolved ==
    /\ UNCHANGED <<pollVars, pageVars>>
    /\ loginRes.kind = "ok"
    /\ localStorage' = [authToken |-> loginRes.access_token,
                        finsightCurrentUser |-> loginRes.user]
    /\ NavigateToDashboard
    /\ loginRes' = NoMsg
    /\ UNCHANGED <<env, loginReq, reqCount, backendVars>>

\* mutant of LoginRejected: the credential of the rejection body is stored
LoginRejectedStores ==
    /\ UNCHANGED <<pollVars, pageVars>>
    /\ loginRes.kind = "error"
    /\ error' = loginErrorMessage(loginRes.status, loginRes.detail)
    /\ loading' = FALSE
    /\ loginRes' = NoMsg
    /\ localStorage' = [localStorage EXCEPT !.authToken = loginRes.rid]
    /\ UNCHANGED <<location, env, lp, username, password, loginMetrics, loginAttempts,
                   loginReq, reqCount, routeVars, backendVars>>

\* mutant of LoginRejected: a rejection starts the attempt count again
LoginRejectedResets ==
    /\ UNCHANGED <<pollVars, pageVars>>
    /\ loginRes.kind = "error"
    /\ error' = loginErrorMessage(loginRes.status, loginRes.detail)
    /\ loading' = FALSE
    /\ loginRes' = NoMsg
    /\ loginAttempts' = 0
    /\ UNCHANGED <<location, localStorage, env, lp, username, password, loginMetrics,
                   loginReq, reqCount, routeVars, backendVars>>

\* mutant of LoginRejected: the catch block sends the attempt again
LoginRejectedRetries ==
    /\ UNCHANGED <<pollVars, pageVars>>
    /\ loginRes.kind = "error"
    /\ error' = loginErrorMessage(loginRes.status, loginRes.detail)
    /\ loading' = TRUE
    /\ loginRes' = NoMsg
    /\ loginReq' = [kind |-> "login", rid |-> reqCount + 1, username |-> username,
                    password |-> password,
                    payload |-> zeroTrustMetrics(loginMetrics, password, loginAttempts,
                                                 "UTC")]
    /\ reqCount' = reqCount + 1
    /\ UNCHANGED <<location, localStorage, env, lp, username, password, loginMetrics,
                   loginAttempts, routeVars, backendVars>>

\* handleSubmit after `await login(...)` threw: the catch and finally blocks
LoginRejected ==
    /\ UNCHANGED <<pollVars, pageVars>>
    /\ loginRes.kind = "error"
    /\ error' = loginErrorMessage(loginRes.status, loginRes.detail)
    /\ loading' = FALSE
    /\ loginRes' = NoMsg
    /\ UNCHANGED <<location, localStorage, env, lp, username, password, loginMetrics,
                   loginAttempts, loginReq, reqCount, routeVars, backendVars>>

\* --------------------------------------------------------- network, backend
\* the request never reaches the server: axios rejects without a response
NetworkError ==
    /\ UNCHANGED <<pollVars, pageVars>>
    /\ loginReq.kind = "login"
    /\ loginReq' = NoMsg
    /\ loginRes' = [kind |-> "error", rid |-> loginReq.rid, status |-> 0,
                    detail |-> NullStr, risk_level |-> NullStr]
    /\ UNCHANGED <<location, localStorage, env, loginVars, reqCount, routeVars, backendVars>>

\* the user directory: the password each user logs in with
CredentialsValid(user, pwd) == user \in Users /\ pwd = <<"a">>

\* the LoginEvent of a scored attempt
LoginEvent(id, createdAt, req, assessment) ==
    [id |-> id, created_at |-> createdAt, attempt |-> req.rid, username |-> req.username,
     risk_score |-> assessment.risk_score, risk_level |-> assessment.risk_level,
     reasons |-> assessment.reasons, outcome |-> Decide(assessment.risk_level)]

\* POST /api/auth/login: score, decide, record, answer.  With scoreFirst the
\* attempt is scored whatever the credentials are; otherwise wrong
\* credentials are rejected before scoring.  A denied attempt gets 403, wrong
\* credentials 401, an allowed attempt with valid credentials a session
\* credential.
BackendLogin ==
    /\ UNCHANGED <<pollVars, pageVars>>
    /\ loginReq.kind = "login"
    /\ \E base \in BaseScores, detail \in Details :
         LET credsValid == CredentialsValid(loginReq.username, loginReq.password)
             scored == scoreFirst \/ credsValid
             a == Assess(loginReq.payload, base, modelAvailable)
             denied == scored /\ Decide(a.risk_level) = "denied"
             level == IF scored THEN a.risk_level ELSE NullStr
         IN  /\ IF scored
                THEN /\ eventStore' = Record(eventStore, LoginEvent(nextId, now, loginReq, a))
                     /\ nextId' = nextId + 1
                ELSE UNCHANGED <<eventStore, nextId>>
             /\ IF denied
                THEN /\ loginRes' = [kind |-> "error", rid |-> loginReq.rid, status |-> 403,
                                     detail |-> detail, risk_level |-> level]
                     /\ UNCHANGED sessions
                ELSE IF ~credsValid
                THEN /\ loginRes' = [kind |-> "error", rid |-> loginReq.rid, status |-> 401,
                                     detail |-> detail, risk_level |-> level]
                     /\ UNCHANGED sessions
                ELSE /\ loginRes' = [kind |-> "ok", rid |-> loginReq.rid,
                                     access_token |-> loginReq.rid,
                                     user |-> loginReq.username, risk_level |-> level]
                     /\ sessions' = sessions \cup {loginReq.rid}
    /\ loginReq' = NoMsg
    /\ UNCHANGED <<location, localStorage, env, loginVars, reqCount, routeVars, scoreFirst,
                   modelAvailable, writers>>

\* ------------------------------------------------- ProtectedRoute actions
\* what ProtectedRoute renders
ProtectedView ==
    IF pr = "unmounted" THEN "none"
    ELSE IF prLoading THEN "loading"
    ELSE IF isAuthenticated # "true" THEN "redirect"
    ELSE "children"

\* checkAuth up to `await getCurrentUser()`
checkAuth ==
    /\ UNCHANGED <<pollVars, pageVars>>
    /\ pr = "effect"
    /\ prToken' = localStorage.authToken
    /\ IF localStorage.authToken = NullNum
       THEN /\ isAuthenticated' = "false"
            /\ prLoading' = FALSE
            /\ pr' = "done"
            /\ UNCHANGED prCheck
       ELSE /\ pr' = "checking"
            /\ prCheck' = "pending"
            /\ UNCHANGED <<isAuthenticated, prLoading>>
    /\ UNCHANGED <<location, localStorage, env, loginVars, netVars, backendVars>>

\* GET /api/auth/me answered 200: the stored credential is a live session
getCurrentUserResolved ==
    /\ UNCHANGED <<pollVars, pageVars>>
    /\ pr = "checking"
    /\ prToken \in sessions
    /\ isAuthenticated' = "true"
    /\ prLoading' = FALSE
    /\ prCheck' = "ok"
    /\ pr' = "done"
    /\ UNCHANGED <<location, localStorage, env, loginVars, netVars, prToken, backendVars>>

\* mutant of getCurrentUserRejected: the stored items are kept
getCurrentUserRejectedKeeps ==
    /\ UNCHANGED <<pollVars, pageVars>>
    /\ pr = "checking"
    /\ isAuthenticated' = "false"
    /\ prLoading' = FALSE
    /\ prCheck' = "failed"
    /\ pr' = "done"
    /\ UNCHANGED <<location, localStorage, env, loginVars, netVars, prToken, backendVars>>

\* GET /api/auth/me failed (credential not accepted, or no answer)
getCurrentUserRejected ==
    /\ UNCHANGED <<pollVars, pageVars>>
    /\ pr = "checking"
    /\ isAuthenticated' = "false"
    /\ localStorage' = [authToken |-> NullNum, finsightCurrentUser |-> NullStr]
    /\ prLoading' = FALSE
    /\ prCheck' = "failed"
    /\ pr' = "done"
    /\ UNCHANGED <<location, env, loginVars, netVars, prToken, backendVars>>

\* <Navigate to="/login" replace />
ProtectedRedirect ==
    /\ UNCHANGED <<pollVars, pageVars>>
    /\ ProtectedView = "redirect"
    /\ NavigateToLogin
    /\ UNCHANGED <<localStorage, env, netVars, backendVars>>

\* DashboardHeader.handleLogout; the button is rendered inside the protected
\* children when the stored user has a username
handleLogout ==
    /\ UNCHANGED <<pollVars, typingVars>>
    /\ UnmountChildren
    /\ ProtectedView = "children"
    /\ localStorage.finsightCurrentUser # NullStr
    /\ localStorage' = [authToken |-> NullNum, finsightCurrentUser |-> NullStr]
    /\ NavigateToLogin
    /\ UNCHANGED <<env, netVars, backendVars>>

\* ----------------------------------------------------------- specification
\* the page is opened on /login or on a protected route, with nothing stored
\* or with a credential of an earlier visit that the backend may or may not
\* still accept
Init ==
    /\ InitPages
    /\ location \in {"/login", "/"}
    /\ localStorage \in {[authToken |-> NullNum, finsightCurrentUser |-> NullStr],
                         [authToken |-> 0, finsightCurrentUser |-> "alice"]}
    /\ env = NominalEnv
    /\ lp = IF location = "/login" THEN "effect" ELSE "unmounted"
    /\ username = ""
    /\ password = <<>>
    /\ loginMetrics = InitialLoginMetrics
    /\ error = ""
    /\ loading = FALSE
    /\ loginAttempts = 0
    /\ loginReq = NoMsg
    /\ loginRes = NoMsg
    /\ reqCount = 0
    /\ pr = IF location = "/" THEN "effect" ELSE "unmounted"
    /\ prToken = NullNum
    /\ prCheck = "none"
    /\ isAuthenticated = "null"
    /\ prLoading = TRUE
    /\ sessions \in {{}, {0}}
    /\ scoreFirst \in BOOLEAN
    /\ modelAvailable \in BOOLEAN
    /\ nextId = 1
    /\ eventStore = <<>>
    /\ writers = IdleWriters
    /\ now = 0
    /\ panel = "unmounted"
    /\ events = <<>>
    /\ lastUpdate = NullNum
    /\ lastFire = 0
    /\ burst = 0
    /\ pollSeq = 0
    /\ pollReqs = {}
    /\ pollRes = {}
    /\ seenIds = {}
    /\ lastMerge = [seq |-> 0, maxSeq |-> 0, dups |-> 0, fresh |-> 0]

Next ==
    \/ LoginPageEffect
    \/ setUsername
    \/ handlePasswordChange
    \/ handleSubmit
    \/ NetworkError
    \/ BackendLogin
    \/ LoginResolved
    \/ LoginRejected
    \/ checkAuth
    \/ getCurrentUserResolved
    \/ getCurrentUserRejected
    \/ ProtectedRedirect
    \/ handleLogout

Spec == Init /\ [][Next]_vars

\* ------------------------------------------- capture over drawn inputs
\* n keystrokes, the first at `start`, `step` ms apart
Run(n, start, step) == [i \in 1..n |-> [timestamp |-> start + step * (i - 1)]]

\* n keystrokes whose intervals alternate between 460 ms and -340 ms (a
\* clock that steps back)
Zigzag(n) == [i \in 1..n |-> [timestamp |-> 1000 + 60 * i + 400 * (i % 2)]]

Stamps == {[timestamp |-> t] : t \in Times}

ShortKeystrokes == SeqsUpTo(Stamps, 3)

LongKeystrokes ==
    {Run(n, 1000, step) : n \in {LongRun - 1, LongRun}, step \in {20, 150, 600}}
        \cup {Zigzag(n) : n \in {LongRun - 1, LongRun}}
        \cup {Run(5, 0, 150)}

PasswordInputs == {<<"a">>, <<"a", "!">>, [i \in 1..10 |-> "a"]}

\* typing_start / typing_end pairs: unset, equal, decreasing, increasing
TypingPairs ==
    {<<s, e>> : s \in {NullNum, 1000}, e \in {NullNum, 900, 1000, 1150, 1700}}

Envs == [language : Languages, timeZone : TimeZones, tabCount : TabCounts]

\* the capture states drawn: few keystrokes with every typing pair, many
\* keystrokes with two typing pairs, and every platform with one typing state
CaptureInputs ==
    {[keystrokes |-> ks, typing |-> tp, password |-> pw, env |-> NominalEnv] :
        ks \in {q \in ShortKeystrokes : Len(q) < 2}, tp \in TypingPairs, pw \in PasswordInputs}
    \cup
    {[keystrokes |-> ks, typing |-> tp, password |-> pw, env |-> NominalEnv] :
        ks \in {q \in ShortKeystrokes : Len(q) >= 2} \cup LongKeystrokes,
        tp \in {<<NullNum, NullNum>>, <<1000, 1150>>}, pw \in PasswordInputs}
    \cup
    {[keystrokes |-> Run(3, 1000, 150), typing |-> <<1000, 1150>>, password |-> <<"a">>,
      env |-> e] : e \in Envs}

\* LoginPage after its mount effect, with a filled form whose capture state
\* is one of CaptureInputs
InitCapture ==
    /\ InitPages
    /\ location = "/login"
    /\ localStorage = [authToken |-> NullNum, finsightCurrentUser |-> NullStr]
    /\ \E in \in CaptureInputs :
         /\ env = in.env
         /\ password = in.password
         /\ loginMetrics = [InitialLoginMetrics EXCEPT
                !.keystrokes = in.keystrokes,
                !.typing_start = in.typing[1],
                !.typing_end = in.typing[2],
                !.password_length = Len(in.password),
                !.keyboard_language = detectKeyboardLanguage(in.env.language),
                !.browser_tab_count = detectBrowserTabs(in.env.tabCount)]
    /\ lp = "ready"
    /\ username = "alice"
    /\ error = ""
    /\ loading = FALSE
    /\ loginAttempts = 0
    /\ loginReq = NoMsg
    /\ loginRes = NoMsg
    /\ reqCount = 0
    /\ pr = "unmounted"
    /\ prToken = NullNum
    /\ prCheck = "none"
    /\ isAuthenticated = "null"
    /\ prLoading = TRUE
    /\ sessions = {}
    /\ scoreFirst \in BOOLEAN
    /\ modelAvailable \in BOOLEAN
    /\ nextId = 1
    /\ eventStore = <<>>
    /\ writers = IdleWriters
    /\ now = 0
    /\ panel = "unmounted"
    /\ events = <<>>
    /\ lastUpdate = NullNum
    /\ lastFire = 0
    /\ burst = 0
    /\ pollSeq = 0
    /\ pollReqs = {}
    /\ pollRes = {}
    /\ seenIds = {}
    /\ lastMerge = [seq |-> 0, maxSeq |-> 0, dups |-> 0, fresh |-> 0]

NextCapture ==
    \/ handleSubmit
    \/ NetworkError
    \/ BackendLogin
    \/ LoginResolved
    \/ LoginRejected

SpecCapture == InitCapture /\ [][NextCapture]_vars

\* ---- the login form while it is being typed into: the key, change and
\* blur handlers of the two fields, from a mounted page with no token
InitTyping ==
    /\ InitPages
    /\ location = "/login"
    /\ localStorage = [authToken |-> NullNum, finsightCurrentUser |-> NullStr]
    /\ env = NominalEnv
    /\ lp = "ready"
    /\ username = ""
    /\ password = <<>>
    /\ loginMetrics = [InitialLoginMetrics EXCEPT
                          !.keyboard_language = detectKeyboardLanguage(env.language),
                          !.browser_tab_count = detectBrowserTabs(env.tabCount)]
    /\ error = ""
    /\ loading = FALSE
    /\ loginAttempts = 0
    /\ loginReq = NoMsg
    /\ loginRes = NoMsg
    /\ reqCount = 0
    /\ pr = "unmounted"
    /\ prToken = NullNum
    /\ prCheck = "none"
    /\ isAuthenticated = "null"
    /\ prLoading = TRUE
    /\ sessions = {}
    /\ scoreFirst = FALSE
    /\ modelAvailable = TRUE
    /\ nextId = 1
    /\ eventStore = <<>>
    /\ writers = IdleWriters
    /\ now = 0
    /\ panel = "unmounted"
    /\ events = <<>>
    /\ lastUpdate = NullNum
    /\ lastFire = 0
    /\ burst = 0
    /\ pollSeq = 0
    /\ pollReqs = {}
    /\ pollRes = {}
    /\ seenIds = {}
    /\ lastMerge = [seq |-> 0, maxSeq |-> 0, dups |-> 0, fresh |-> 0]

NextTyping ==
    \/ usernameKeyDown
    \/ handlePasswordKeyDown
    \/ handlePasswordKeyUp
    \/ handlePasswordChange
    \/ handlePasswordBlur

SpecTyping == InitTyping /\ [][NextTyping]_vars

\* ------------------------------------- RealtimeEventsPanel and its feed
\* setInterval(loadEvents, 2000): the period, in the model's time unit
PollEvery == 2
\* how late a timer callback may run, in the model's time unit
MaxLate == 1
\* getRealtimeEvents(since, 20): the limit the panel asks for, scaled
PollLimit == 2
\* slice(0, 50): the cap of the events buffer, scaled
BufferCap == 3
\* the clock runs from PollStart to PollStart + MaxTicks
MaxTicks == 5
\* events recorded while the panel is polling
MaxEvents == 4
\* recent-events requests and responses in flight at once
MaxInFlight == 2

\* Date.now() - 60000: the look-back is 30 periods in the source, 2 here
Lookback == 2 * PollEvery

\* the clock at mount; late enough for Date.now() - 60000 to be positive
PollStart == Lookback + 1

\* the lastUpdate that loadEvents reads.  The mount effect has no
\* dependencies, so the first call and the interval both run the loadEvents
\* of the first render, whose lastUpdate is the initial state, null.
capturedLastUpdate == NullNum

\* const since = lastUpdate || new Date(Date.now() - 60000).toISOString()
Since(last, dateNow) == IF Truthy(last) THEN last ELSE dateNow - Lookback

\* mutant of getRealtimeEventsParams: the cursor is never sent
getRealtimeEventsParamsNoSince(since, limit) == [limit |-> limit, since |-> NullNum]

\* getRealtimeEvents: the query parameters; since is sent only when truthy
\* (NullNum stands for an absent parameter)
getRealtimeEventsParams(since, limit) ==
    [limit |-> limit, since |-> IF Truthy(since) THEN since ELSE NullNum]

\* query_recent(limit, since): the events with created_at > since when since
\* is given, by ascending id (the store is kept in id order and ids follow
\* created_at), capped at limit
QueryRecent(store, since, limit) ==
    LET newer == SelectSeq(store, LAMBDA e : since = NullNum \/ e.created_at > since)
    IN  SubSeq(newer, 1, Min(Len(newer), limit))

\* mutant of MergeItems: the buffer is never cut
MergeItemsNoCap(prev, items) ==
    SelectSeq(items, LAMBDA e : ~ \E i \in DOMAIN prev : prev[i].id = e.id) \o prev

\* mutant of MergeItems: the response is prepended as it is
MergeItemsNoFilter(prev, items) ==
    LET all == items \o prev
    IN  SubSeq(all, 1, Min(Len(all), BufferCap))

\* the setEvents updater: drop the items whose id is in prev, prepend the
\* rest, keep the first BufferCap
MergeItems(prev, items) ==
    LET newEvents == SelectSeq(items, LAMBDA e : ~ \E i \in DOMAIN prev : prev[i].id = e.id)
        all == newEvents \o prev
    IN  SubSeq(all, 1, Min(Len(all), BufferCap))

\* ids of a sequence of events
Ids(s) == {s[i].id : i \in DOMAIN s}

\* what the poll actions leave alone
appVars == <<location, localStorage, env, loginVars, netVars, routeVars, pageVars>>

\* one call of loadEvents up to its await: the request goes out
LoadEventsCall ==
    LET since == Since(capturedLastUpdate, now)
    IN  /\ pollSeq' = pollSeq + 1
        /\ pollReqs' = pollReqs \cup
              {[seq |-> pollSeq + 1, since |-> since,
                params |-> getRealtimeEventsParams(since, PollLimit)]}
        /\ lastFire' = now
        /\ burst' = 0

\* the mount effect: loadEvents() and setInterval(loadEvents, 2000)
PanelEffect ==
    /\ panel = "effect"
    /\ panel' = "polling"
    /\ LoadEventsCall
    /\ UNCHANGED <<appVars, backendVars, now, events, lastUpdate, pollRes, seenIds, lastMerge>>

\* the interval callback: not before a period has passed since the last call
IntervalFires ==
    /\ panel = "polling"
    /\ now - lastFire >= PollEvery
    /\ Cardinality(pollReqs) + Cardinality(pollRes) < MaxInFlight
    /\ LoadEventsCall
    /\ UNCHANGED <<appVars, backendVars, now, panel, events, lastUpdate, pollRes, seenIds,
                   lastMerge>>

\* GET /api/auth/realtime/events answers one request
BackendRecent ==
    /\ \E r \in pollReqs :
         /\ pollReqs' = pollReqs \ {r}
         /\ pollRes' = pollRes \cup
               {[seq |-> r.seq, since |-> r.since, limit |-> r.params.limit,
                 items |-> QueryRecent(eventStore, r.params.since, r.params.limit)]}
    /\ UNCHANGED <<appVars, backendVars, now, panel, events, lastUpdate, lastFire, burst,
                   pollSeq, seenIds, lastMerge>>

\* loadEvents after its await, in any order of the responses
PollResolved ==
    /\ \E r \in pollRes :
         /\ pollRes' = pollRes \ {r}
         /\ IF Len(r.items) > 0
            THEN /\ events' = MergeItems(events, r.items)
                 /\ lastUpdate' = now
                 /\ seenIds' = seenIds \cup Ids(events')
                 /\ lastMerge' = [seq |-> r.seq,
                                  maxSeq |-> Max(r.seq, lastMerge.maxSeq),
                                  dups |-> Cardinality(Ids(r.items) \cap Ids(events)),
                                  fresh |-> Cardinality(Ids(r.items) \ Ids(events))]
            ELSE UNCHANGED <<events, lastUpdate, seenIds, lastMerge>>
    /\ UNCHANGED <<appVars, backendVars, now, panel, lastFire, burst, pollSeq, pollReqs>>

\* the request fails: the catch block logs and nothing else happens
PollFailed ==
    /\ \E r \in pollReqs : pollReqs' = pollReqs \ {r}
    /\ UNCHANGED <<appVars, backendVars, now, panel, events, lastUpdate, lastFire, burst,
                   pollSeq, pollRes, seenIds, lastMerge>>

\* the effect's cleanup: clearInterval; what is in flight no longer matters
PanelCleanup ==
    /\ panel = "polling"
    /\ panel' = "unmounted"
    /\ pollReqs' = {}
    /\ pollRes' = {}
    /\ UNCHANGED <<appVars, backendVars, now, events, lastUpdate, lastFire, burst, pollSeq,
                   seenIds, lastMerge>>

\* the clock advances; a due interval callback runs at most MaxLate late
Tick ==
    /\ now < PollStart + MaxTicks
    /\ panel = "polling" => now - lastFire < PollEvery + MaxLate
    /\ panel # "effect"
    /\ now' = now + 1
    /\ UNCHANGED <<appVars, backendVars, panel, events, lastUpdate, lastFire, burst, pollSeq,
                   pollReqs, pollRes, seenIds, lastMerge>>

\* the login request of another client, as the backend sees it
RemoteLogin ==
    [kind |-> "login", rid |-> 0, username |-> "alice", password |-> <<"a">>,
     payload |-> zeroTrustMetrics(InitialLoginMetrics, <<"a">>, 1, NominalEnv.timeZone)]

\* another client's login is scored and recorded while the panel polls; at
\* most PollLimit of them between two loadEvents calls
RecordLogin ==
    /\ panel = "polling"
    /\ Len(eventStore) < MaxEvents
    /\ burst < PollLimit
    /\ eventStore' = Record(eventStore,
                            LoginEvent(nextId, now, RemoteLogin,
                                       Assess(RemoteLogin.payload, 0, modelAvailable)))
    /\ nextId' = nextId + 1
    /\ burst' = burst + 1
    /\ UNCHANGED <<appVars, sessions, scoreFirst, modelAvailable, writers, now, panel,
                   events, lastUpdate, lastFire, pollSeq, pollReqs, pollRes, seenIds,
                   lastMerge>>

\* no merge yet
NoMerge == [seq |-> 0, maxSeq |-> 0, dups |-> 0, fresh |-> 0]

\* the dashboard is open and the panel has rendered; nobody is logging in here
InitPoll ==
    /\ InitPages
    /\ location = "/"
    /\ localStorage = [authToken |-> 0, finsightCurrentUser |-> "alice"]
    /\ env = NominalEnv
    /\ lp = "unmounted"
    /\ username = ""
    /\ password = <<>>
    /\ loginMetrics = InitialLoginMetrics
    /\ error = ""
    /\ loading = FALSE
    /\ loginAttempts = 0
    /\ loginReq = NoMsg
    /\ loginRes = NoMsg
    /\ reqCount = 0
    /\ pr = "done"
    /\ prToken = 0
    /\ prCheck = "ok"
    /\ isAuthenticated = "true"
    /\ prLoading = FALSE
    /\ sessions = {0}
    /\ scoreFirst = TRUE
    /\ modelAvailable = TRUE
    /\ nextId = 1
    /\ eventStore = <<>>
    /\ writers = IdleWriters
    /\ now = PollStart
    /\ panel = "effect"
    /\ events = <<>>
    /\ lastUpdate = NullNum
    /\ lastFire = PollStart
    /\ burst = 0
    /\ pollSeq = 0
    /\ pollReqs = {}
    /\ pollRes = {}
    /\ seenIds = {}
    /\ lastMerge = NoMerge

NextPoll ==
    \/ PanelEffect
    \/ IntervalFires
    \/ BackendRecent
    \/ PollResolved
    \/ PollFailed
    \/ PanelCleanup
    \/ Tick
    \/ RecordLogin

SpecPoll == InitPoll /\ [][NextPoll]_vars

\* ------------------------------------------- Event Store, concurrent appends
\* mutant of NextVal: the sequence does not advance
NextValStuck(seq) == seq

\* the id sequence: the value after seq
NextVal(seq) == seq + 1

\* the largest id in the store, 0 when it is empty
MaxId(store) ==
    IF store = <<>> THEN 0
    ELSE CHOOSE m \in Ids(store) : \A k \in Ids(store) : k <= m

\* the table after a row is inserted: rows are kept in id order
InsertById(store, event) ==
    LET before == SelectSeq(store, LAMBDA e : e.id <= event.id)
        behind == SelectSeq(store, LAMBDA e : e.id > event.id)
    IN  before \o <<event>> \o behind

\* record(event) begins: the handler draws its id from the sequence in one
\* atomic step
RecordBegin ==
    /\ \E w \in Writers :
         /\ writers[w].pc = "idle"
         /\ writers[w].done < MaxAppends
         /\ writers' = [writers EXCEPT ![w] = [pc |-> "allocated", id |-> nextId,
                                               after |-> MaxId(eventStore),
                                               done |-> writers[w].done]]
         /\ nextId' = NextVal(nextId)
    /\ UNCHANGED <<appVars, pollVars, sessions, scoreFirst, modelAvailable, eventStore>>

\* record(event) completes: the row with the drawn id is inserted
RecordCommit ==
    /\ \E w \in Writers :
         /\ writers[w].pc = "allocated"
         /\ eventStore' = InsertById(eventStore,
                                     LoginEvent(writers[w].id, now,
                                                [RemoteLogin EXCEPT !.rid = w],
                                                Assess(RemoteLogin.payload, 0, modelAvailable)))
         /\ writers' = [writers EXCEPT ![w] = [pc |-> "idle", id |-> 0, after |-> 0,
                                               done |-> writers[w].done + 1]]
    /\ UNCHANGED <<appVars, pollVars, sessions, scoreFirst, modelAvailable, nextId>>

\* the backend alone: an empty store, no client
InitStore ==
    /\ InitPages
    /\ location = "/login"
    /\ localStorage = [authToken |-> NullNum, finsightCurrentUser |-> NullStr]
    /\ env = NominalEnv
    /\ lp = "unmounted"
    /\ username = ""
    /\ password = <<>>
    /\ loginMetrics = InitialLoginMetrics
    /\ error = ""
    /\ loading = FALSE
    /\ loginAttempts = 0
    /\ loginReq = NoMsg
    /\ loginRes = NoMsg
    /\ reqCount = 0
    /\ pr = "unmounted"
    /\ prToken = NullNum
    /\ prCheck = "none"
    /\ isAuthenticated = "null"
    /\ prLoading = TRUE
    /\ sessions = {}
    /\ scoreFirst = TRUE
    /\ modelAvailable = TRUE
    /\ nextId = 1
    /\ eventStore = <<>>
    /\ writers = IdleWriters
    /\ now = 0
    /\ panel = "unmounted"
    /\ events = <<>>
    /\ lastUpdate = NullNum
    /\ lastFire = 0
    /\ burst = 0
    /\ pollSeq = 0
    /\ pollReqs = {}
    /\ pollRes = {}
    /\ seenIds = {}
    /\ lastMerge = NoMerge

NextStore ==
    \/ RecordBegin
    \/ RecordCommit

SpecStore == InitStore /\ [][NextStore]_vars

\* ========================================================= ZeroTrustPanel
\* The panel is one of the children of ProtectedRoute.  Its form fields, the
\* events and stats lists and the monitoring data are display data that no
\* step below depends on; they are left out.
MaxLoads == 1

\* what GET /api/zero-trust/users lists
UserLists == {<<>>, <<"alice", "bob">>}

Listed(list) == {list[i] : i \in 1..Len(list)}

\* the panel is rendered with its useState initial values and the refresh
\* effect runs: loadData() is called and the 8-second interval is set
ZeroTrustMount ==
    /\ UNCHANGED <<pollVars, typingVars, deptVars, insVars, appStateButPages>>
    /\ location = "/"
    /\ ProtectedView = "children"
    /\ ztPanel = "unmounted"
    /\ ztPanel' = "mounted"
    /\ ztUsers' = <<>>
    /\ selectedUser' = ""
    /\ ztLoading' = FALSE
    /\ lastResult' = NullStr
    /\ ztLoads' = 1
    /\ UNCHANGED ztSubmit

\* the user opens another page of the dashboard
ZeroTrustLeave ==
    /\ UNCHANGED <<pollVars, typingVars, deptVars, insVars, appStateButPages>>
    /\ ztPanel = "mounted"
    /\ UnmountZeroTrust

\* setInterval(loadData, 8000) fires
ZeroTrustInterval ==
    /\ UNCHANGED <<pollVars, typingVars, deptVars, insVars, appStateButPages>>
    /\ ztPanel = "mounted"
    /\ ztLoads < MaxLoads
    /\ ztLoads' = ztLoads + 1
    /\ UNCHANGED <<ztPanel, ztUsers, selectedUser, ztLoading, lastResult, ztSubmit>>

\* the selectedUser that a loadData call sees after its await: the value of
\* the render that created the function
loadDataSelects(closureSelectedUser, items, current) ==
    IF closureSelectedUser = "" /\ Len(items) > 0 THEN items[1] ELSE current

\* the selectedUser of the render whose loadData the refresh effect holds:
\* the effect has no dependencies, so it is the first render's
refreshClosureSelectedUser == ""

\* the three requests of a mount or interval loadData call are answered
loadDataResolved ==
    /\ UNCHANGED <<pollVars, typingVars, deptVars, insVars, appStateButPages>>
    /\ ztLoads > 0
    /\ ztLoads' = ztLoads - 1
    /\ \E items \in UserLists :
         /\ ztUsers' = items
         /\ selectedUser' = loadDataSelects(refreshClosureSelectedUser, items, selectedUser)
    /\ UNCHANGED <<ztPanel, ztLoading, lastResult, ztSubmit>>

\* one of the three requests fails: Promise.all rejects, nothing is set
loadDataRejected ==
    /\ UNCHANGED <<pollVars, typingVars, deptVars, insVars, appStateButPages>>
    /\ ztLoads > 0
    /\ ztLoads' = ztLoads - 1
    /\ UNCHANGED <<ztPanel, ztUsers, selectedUser, ztLoading, lastResult, ztSubmit>>

\* onChange of the select, or a click on a row of the user list
setSelectedUser ==
    /\ UNCHANGED <<pollVars, typingVars, deptVars, insVars, appStateButPages>>
    /\ ztPanel = "mounted"
    /\ \E u \in Listed(ztUsers) \cup {""} :
         /\ u # selectedUser
         /\ selectedUser' = u
    /\ UNCHANGED <<ztPanel, ztUsers, ztLoading, lastResult, ztLoads, ztSubmit>>

\* onSubmitLogin up to `await zeroTrustLogin(payload)`; the button is
\* disabled while loading or with no user selected.  At most one call is
\* followed at a time.
onSubmitLogin ==
    /\ UNCHANGED <<pollVars, typingVars, deptVars, insVars, appStateButPages>>
    /\ ztPanel = "mounted"
    /\ ~ztLoading
    /\ selectedUser # ""
    /\ ztSubmit = NoSubmit
    /\ ztLoading' = TRUE
    /\ ztSubmit' = [phase |-> "login", user |-> selectedUser, users |-> ztUsers,
                    stale |-> FALSE]
    /\ UNCHANGED <<ztPanel, ztUsers, selectedUser, lastResult, ztLoads>>

\* zeroTrustLogin answered: lastResult is set, the selected user's record is
\* written to finsightCurrentUser, then `await loadData()`.  The write does
\* not depend on the panel still being mounted.
zeroTrustLoginResolved ==
    /\ UNCHANGED <<pollVars, typingVars, deptVars, insVars>>
    /\ ztSubmit.phase = "login"
    /\ localStorage' = IF ztSubmit.user \in Listed(ztSubmit.users)
                       THEN [localStorage EXCEPT !.finsightCurrentUser = ztSubmit.user]
                       ELSE localStorage
    /\ IF ztSubmit.stale
       THEN /\ ztSubmit' = NoSubmit
            /\ UNCHANGED lastResult
       ELSE /\ ztSubmit' = [ztSubmit EXCEPT !.phase = "loadData"]
            /\ lastResult' = ztSubmit.user
    /\ UNCHANGED <<ztPanel, ztUsers, selectedUser, ztLoading, ztLoads>>
    /\ UNCHANGED <<location, env, loginVars, netVars, routeVars, backendVars>>

\* a rejected await of onSubmitLogin: catch clears lastResult, finally
\* clears loading
onSubmitLoginCatch ==
    /\ ztSubmit' = NoSubmit
    /\ IF ztSubmit.stale
       THEN UNCHANGED <<lastResult, ztLoading>>
       ELSE /\ lastResult' = NullStr
            /\ ztLoading' = FALSE

zeroTrustLoginRejected ==
    /\ UNCHANGED <<pollVars, typingVars, deptVars, insVars, appStateButPages>>
    /\ ztSubmit.phase = "login"
    /\ onSubmitLoginCatch
    /\ UNCHANGED <<ztPanel, ztUsers, selectedUser, ztLoads>>

\* the loadData call of onSubmitLogin is answered; it is the loadData of the
\* render that submitted, where a user is selected; then
\* `await loadUserMonitoring(selectedUser)`
submitLoadDataResolved ==
    /\ UNCHANGED <<pollVars, typingVars, deptVars, insVars, appStateButPages>>
    /\ ztSubmit.phase = "loadData"
    /\ \E items \in UserLists :
         /\ ztUsers' = items
         /\ selectedUser' = loadDataSelects(ztSubmit.user, items, selectedUser)
    /\ ztSubmit' = [ztSubmit EXCEPT !.phase = "monitoring"]
    /\ UNCHANGED <<ztPanel, ztLoading, lastResult, ztLoads>>

submitLoadDataRejected ==
    /\ UNCHANGED <<pollVars, typingVars, deptVars, insVars, appStateButPages>>
    /\ ztSubmit.phase = "loadData"
    /\ onSubmitLoginCatch
    /\ UNCHANGED <<ztPanel, ztUsers, selectedUser, ztLoads>>

\* loadUserMonitoring catches its own failure; finally clears loading
loadUserMonitoringSettled ==
    /\ UNCHANGED <<pollVars, typingVars, deptVars, insVars, appStateButPages>>
    /\ ztSubmit.phase = "monitoring"
    /\ ztSubmit' = NoSubmit
    /\ ztLoading' = FALSE
    /\ UNCHANGED <<ztPanel, ztUsers, selectedUser, lastResult, ztLoads>>

\* a signed-in session on the dashboard
InitZeroTrust ==
    /\ InitPages
    /\ location = "/"
    /\ localStorage = [authToken |-> 0, finsightCurrentUser |-> "alice"]
    /\ env = NominalEnv
    /\ lp = "unmounted"
    /\ username = ""
    /\ password = <<>>
    /\ loginMetrics = InitialLoginMetrics
    /\ error = ""
    /\ loading = FALSE
    /\ loginAttempts = 0
    /\ loginReq = NoMsg
    /\ loginRes = NoMsg
    /\ reqCount = 0
    /\ pr = "effect"
    /\ prToken = NullNum
    /\ prCheck = "none"
    /\ isAuthenticated = "null"
    /\ prLoading = TRUE
    /\ sessions = {0}
    /\ scoreFirst = FALSE
    /\ modelAvailable = TRUE
    /\ nextId = 1
    /\ eventStore = <<>>
    /\ writers = IdleWriters
    /\ now = 0
    /\ panel = "unmounted"
    /\ events = <<>>
    /\ lastUpdate = NullNum
    /\ lastFire = 0
    /\ burst = 0
    /\ pollSeq = 0
    /\ pollReqs = {}
    /\ pollRes = {}
    /\ seenIds = {}
    /\ lastMerge = [seq |-> 0, maxSeq |-> 0, dups |-> 0, fresh |-> 0]

NextZeroTrust ==
    \/ Next
    \/ ZeroTrustMount
    \/ ZeroTrustLeave
    \/ ZeroTrustInterval
    \/ loadDataResolved
    \/ loadDataRejected
    \/ setSelectedUser
    \/ onSubmitLogin
    \/ zeroTrustLoginResolved
    \/ zeroTrustLoginRejected
    \/ submitLoadDataResolved
    \/ submitLoadDataRejected
    \/ loadUserMonitoringSettled

SpecZeroTrust == InitZeroTrust /\ [][NextZeroTrust]_vars

\* ==================================================== DepartmentDashboard
\* Route /dept/:dept renders one DepartmentDashboard whatever the
\* department: a change of :dept re-runs the effect, the state stays.  A
\* sample is modelled by the department it was fetched for.
HistoryCap == 2
MaxFetches == 1
MaxDeploys == 2

\* what GET recommendations lists for a department
RecLists == {[r \in RecIds |-> "proposed"],
             [r \in RecIds |-> IF r = 1 THEN "deployed" ELSE "proposed"]}
DeployStatuses == {"success", "rolled_back", "pending"}

\* newHist.slice(-20), with HistoryCap for 20
SliceLast(h) == IF Len(h) > HistoryCap THEN SubSeq(h, Len(h) - HistoryCap + 1, Len(h)) ELSE h

\* the session of the application while a dashboard page is shown
SignedIn ==
    /\ location = "/"
    /\ localStorage = [authToken |-> 0, finsightCurrentUser |-> "alice"]
    /\ env = NominalEnv
    /\ lp = "unmounted"
    /\ username = ""
    /\ password = <<>>
    /\ loginMetrics = InitialLoginMetrics
    /\ error = ""
    /\ loading = FALSE
    /\ loginAttempts = 0
    /\ loginReq = NoMsg
    /\ loginRes = NoMsg
    /\ reqCount = 0
    /\ pr = "done"
    /\ prToken = 0
    /\ prCheck = "ok"
    /\ isAuthenticated = "true"
    /\ prLoading = FALSE
    /\ sessions = {0}
    /\ scoreFirst = FALSE
    /\ modelAvailable = TRUE
    /\ nextId = 1
    /\ eventStore = <<>>
    /\ writers = IdleWriters
    /\ now = 0
    /\ panel = "unmounted"
    /\ events = <<>>
    /\ lastUpdate = NullNum
    /\ lastFire = 0
    /\ burst = 0
    /\ pollSeq = 0
    /\ pollReqs = {}
    /\ pollRes = {}
    /\ seenIds = {}
    /\ lastMerge = [seq |-> 0, maxSeq |-> 0, dups |-> 0, fresh |-> 0]

deptFrame == <<pollVars, typingVars, ztVars, insVars, appStateButPages>>

\* the effect of [dept]: history and alert are cleared, fetchStats() and
\* fetchRecs() are called and the 2-second interval is set; stats,
\* recommendations and deploying are not touched
DepartmentEffect(d) ==
    /\ dept' = d
    /\ history' = <<>>
    /\ alert' = "null"
    /\ statsCalls' = [statsCalls EXCEPT ![d] = @ + 1]
    /\ recsCalls' = recsCalls + 1
    /\ UNCHANGED <<stats, recommendations, deploying, deployCalls>>

\* the user follows the sidebar link of another department: cleanup clears
\* the interval of the previous department, then the effect runs
DepartmentSwitch ==
    /\ UNCHANGED deptFrame
    /\ dept # NullStr
    /\ recsCalls < MaxFetches
    /\ \E d \in Depts \ {dept} :
         /\ statsCalls[d] < MaxFetches
         /\ DepartmentEffect(d)

\* setInterval(fetchStats, 2000) fires: the fetchStats of the current effect
DepartmentInterval ==
    /\ UNCHANGED deptFrame
    /\ dept # NullStr
    /\ statsCalls[dept] < MaxFetches
    /\ statsCalls' = [statsCalls EXCEPT ![dept] = @ + 1]
    /\ UNCHANGED <<dept, stats, history, recommendations, deploying, alert, recsCalls,
                   deployCalls>>

\* getRealtimeStats(d) answered: fetchStats records the sample
fetchStatsResolved ==
    /\ UNCHANGED deptFrame
    /\ \E d \in Depts :
         /\ statsCalls[d] > 0
         /\ statsCalls' = [statsCalls EXCEPT ![d] = @ - 1]
         /\ stats' = d
         /\ history' = SliceLast(Append(history, d))
    /\ UNCHANGED <<dept, recommendations, deploying, alert, recsCalls, deployCalls>>

\* getRealtimeStats(d) failed: the error is logged
fetchStatsRejected ==
    /\ UNCHANGED deptFrame
    /\ \E d \in Depts :
         /\ statsCalls[d] > 0
         /\ statsCalls' = [statsCalls EXCEPT ![d] = @ - 1]
    /\ UNCHANGED <<dept, stats, history, recommendations, deploying, alert, recsCalls,
                   deployCalls>>

fetchRecsResolved ==
    /\ UNCHANGED deptFrame
    /\ recsCalls > 0
    /\ recsCalls' = recsCalls - 1
    /\ \E recs \in RecLists : recommendations' = recs
    /\ UNCHANGED <<dept, stats, history, deploying, alert, statsCalls, deployCalls>>

fetchRecsRejected ==
    /\ UNCHANGED deptFrame
    /\ recsCalls > 0
    /\ recsCalls' = recsCalls - 1
    /\ UNCHANGED <<dept, stats, history, recommendations, deploying, alert, statsCalls,
                   deployCalls>>

\* the One-Click Deploy button of recommendation r is rendered and enabled
DeployEnabled(r) == recommendations[r] = "proposed" /\ deploying # r

InFlight(r) == deployCalls[r].deploy + deployCalls[r].recs

\* handleDeploy(recId) up to `await deployRecommendation(recId)`
handleDeploy ==
    /\ UNCHANGED deptFrame
    /\ \E r \in RecIds :
         /\ DeployEnabled(r)
         /\ InFlight(r) < MaxDeploys
         /\ deploying' = r
         /\ deployCalls' = [deployCalls EXCEPT ![r].deploy = @ + 1]
    /\ UNCHANGED <<dept, stats, history, recommendations, alert, statsCalls, recsCalls>>

\* deployRecommendation answered: the alert is set by status, then
\* `await getRecommendations(dept)`
deployRecommendationResolved ==
    /\ UNCHANGED deptFrame
    /\ \E r \in RecIds, status \in DeployStatuses :
         /\ deployCalls[r].deploy > 0
         /\ deployCalls' = [deployCalls EXCEPT ![r].deploy = @ - 1, ![r].recs = @ + 1]
         /\ alert' = IF status = "success" THEN "success"
                     ELSE IF status = "rolled_back" THEN "error"
                     ELSE alert
    /\ UNCHANGED <<dept, stats, history, recommendations, deploying, statsCalls, recsCalls>>

\* deployRecommendation failed: catch sets the alert, finally clears deploying
deployRecommendationRejected ==
    /\ UNCHANGED deptFrame
    /\ \E r \in RecIds :
         /\ deployCalls[r].deploy > 0
         /\ deployCalls' = [deployCalls EXCEPT ![r].deploy = @ - 1]
    /\ alert' = "error"
    /\ deploying' = NullNum
    /\ UNCHANGED <<dept, stats, history, recommendations, statsCalls, recsCalls>>

\* the getRecommendations of handleDeploy answered: the list is replaced,
\* finally clears deploying
deployRecsResolved ==
    /\ UNCHANGED deptFrame
    /\ \E r \in RecIds, recs \in RecLists :
         /\ deployCalls[r].recs > 0
         /\ deployCalls' = [deployCalls EXCEPT ![r].recs = @ - 1]
         /\ recommendations' = recs
    /\ deploying' = NullNum
    /\ UNCHANGED <<dept, stats, history, alert, statsCalls, recsCalls>>

deployRecsRejected ==
    /\ UNCHANGED deptFrame
    /\ \E r \in RecIds :
         /\ deployCalls[r].recs > 0
         /\ deployCalls' = [deployCalls EXCEPT ![r].recs = @ - 1]
    /\ alert' = "error"
    /\ deploying' = NullNum
    /\ UNCHANGED <<dept, stats, history, recommendations, statsCalls, recsCalls>>

\* a department page has just been opened: useState initial values, the
\* effect has run
InitDepartment ==
    /\ SignedIn
    /\ keyEvent = NoKey
    /\ ZeroTrustUnmounted
    /\ InsightsUnmounted
    /\ dept \in Depts
    /\ stats = NullStr
    /\ history = <<>>
    /\ recommendations = NoRecommendations
    /\ deploying = NullNum
    /\ alert = "null"
    /\ statsCalls = [d \in Depts |-> IF d = dept THEN 1 ELSE 0]
    /\ recsCalls = 1
    /\ deployCalls = NoCalls

NextDepartment ==
    \/ DepartmentSwitch
    \/ DepartmentInterval
    \/ fetchStatsResolved
    \/ fetchStatsRejected
    \/ fetchRecsResolved
    \/ fetchRecsRejected
    \/ handleDeploy
    \/ deployRecommendationResolved
    \/ deployRecommendationRejected
    \/ deployRecsResolved
    \/ deployRecsRejected

SpecDepartment == InitDepartment /\ [][NextDepartment]_vars

\* =========================================================== InsightsPage
\* The data a load sets (summary, the four role insights, story, heatmap) is
\* set together at the end of loadInsights; it is modelled by the budget it
\* was loaded for.
LoadRequests == 7
MaxFeedback == 2
Budgets == {0, 3000, 5000}
Ratings == {1, -1}

insFrame == <<pollVars, typingVars, ztVars, deptVars, appStateButPages>>

\* loadInsights(b) up to its first await
loadInsights(b) ==
    /\ insLoading' = TRUE
    /\ loadStep' = 1
    /\ loadBudget' = b

\* onChange of the budget input: Number(value) || 0
handleBudgetChange ==
    /\ UNCHANGED insFrame
    /\ insights = "mounted"
    /\ \E value \in Budgets :
         /\ value # budget
         /\ budget' = value
    /\ UNCHANGED <<insights, insLoading, summary, loadStep, loadBudget, feedbackRating,
                   feedbackSubmitted, feedbackPending, feedbackSaved>>

\* the Run Scenario button, disabled while loading or with budget <= 0
handleApplyBudget ==
    /\ UNCHANGED insFrame
    /\ insights = "mounted"
    /\ ~insLoading
    /\ budget > 0
    /\ loadStep = 0
    /\ loadInsights(budget)
    /\ UNCHANGED <<insights, budget, summary, feedbackRating, feedbackSubmitted,
                   feedbackPending, feedbackSaved>>

\* the request loadInsights awaits is answered: the next one is sent, and
\* after the last one the results are set and loading is cleared
loadRequestResolved ==
    /\ UNCHANGED insFrame
    /\ loadStep > 0
    /\ IF loadStep < LoadRequests
       THEN /\ loadStep' = loadStep + 1
            /\ UNCHANGED <<summary, insLoading, loadBudget>>
       ELSE /\ loadStep' = 0
            /\ summary' = loadBudget
            /\ insLoading' = FALSE
            /\ loadBudget' = NullNum
    /\ UNCHANGED <<insights, budget, feedbackRating, feedbackSubmitted, feedbackPending,
                   feedbackSaved>>

\* the request loadInsights awaits fails: the rejection leaves loadInsights
\* (and handleApplyBudget) with nothing set
loadRequestRejected ==
    /\ UNCHANGED insFrame
    /\ loadStep > 0
    /\ loadStep' = 0
    /\ loadBudget' = NullNum
    /\ UNCHANGED <<insights, budget, insLoading, summary, feedbackRating, feedbackSubmitted,
                   feedbackPending, feedbackSaved>>

\* the feedback buttons are disabled once feedbackSubmitted
FeedbackEnabled == ~feedbackSubmitted

\* handleFeedback(rating) up to `await submitFeedback(...)`
handleFeedback ==
    /\ UNCHANGED insFrame
    /\ insights = "mounted"
    /\ FeedbackEnabled
    /\ feedbackPending + feedbackSaved < MaxFeedback
    /\ \E rating \in Ratings : feedbackRating' = rating
    /\ feedbackPending' = feedbackPending + 1
    /\ UNCHANGED <<insights, budget, insLoading, summary, loadStep, loadBudget,
                   feedbackSubmitted, feedbackSaved>>

submitFeedbackResolved ==
    /\ UNCHANGED insFrame
    /\ feedbackPending > 0
    /\ feedbackPending' = feedbackPending - 1
    /\ feedbackSaved' = feedbackSaved + 1
    /\ feedbackSubmitted' = TRUE
    /\ UNCHANGED <<insights, budget, insLoading, summary, loadStep, loadBudget,
                   feedbackRating>>

submitFeedbackRejected ==
    /\ UNCHANGED insFrame
    /\ feedbackPending > 0
    /\ feedbackPending' = feedbackPending - 1
    /\ feedbackSubmitted' = FALSE
    /\ UNCHANGED <<insights, budget, insLoading, summary, loadStep, loadBudget,
                   feedbackRating, feedbackSaved>>

\* the page has just been opened: useState initial values, the mount effect
\* has called loadInsights(3000)
InitInsights ==
    /\ SignedIn
    /\ keyEvent = NoKey
    /\ ZeroTrustUnmounted
    /\ DepartmentUnmounted
    /\ insights = "mounted"
    /\ budget = 3000
    /\ insLoading = TRUE
    /\ summary = NullNum
    /\ loadStep = 1
    /\ loadBudget = 3000
    /\ feedbackRating = 0
    /\ feedbackSubmitted = FALSE
    /\ feedbackPending = 0
    /\ feedbackSaved = 0

NextInsights ==
    \/ handleBudgetChange
    \/ handleApplyBudget
    \/ loadRequestResolved
    \/ loadRequestRejected
    \/ handleFeedback
    \/ submitFeedbackResolved
    \/ submitFeedbackRejected

SpecInsights == InitInsights /\ [][NextInsights]_vars

\* every request is eventually answered or fails
SpecInsightsFair ==
    SpecInsights /\ WF_vars(loadRequestResolved \/ loadRequestRejected)

\* ------------------------------------------------- the automatic steps run
\* Effects run after the render that scheduled them, <Navigate> navigates
\* when it is rendered, and the session check is answered or fails.
SpecFair ==
    /\ Spec
    /\ WF_vars(LoginPageEffect)
    /\ WF_vars(checkAuth)
    /\ WF_vars(getCurrentUserResolved \/ getCurrentUserRejected)
    /\ WF_vars(ProtectedRedirect)

\* ================================================================ claims
\* a rational lies in [30, 150]
InTypingRange(w) == w[2] > 0 /\ RLeq(Rat(30, 1), w) /\ RLeq(w, Rat(150, 1))

\* C1: calculateTypingSpeed yields a value in [30, 150] in every capture
\* state of the page, and so does typing_speed_wpm of every login request
\* that LoginPage sends.
C1_TypingSpeedBounded ==
    /\ lp = "ready" => InTypingRange(calculateTypingSpeed(loginMetrics, password))
    /\ loginReq.kind = "login" => InTypingRange(loginReq.payload.typing_speed_wpm)

\* a request in flight whose keystroke timing gives more than 150 wpm and
\* whose payload carries exactly 150
C1_Witness ==
    /\ loginReq.kind = "login"
    /\ Len(loginMetrics.keystrokes) >= 2
    /\ LET ks == loginMetrics.keystrokes
           ms == ks[Len(ks)].timestamp - ks[1].timestamp
       IN  ms > 0 /\ Len(password) * 12000 > 150 * ms
    /\ loginReq.payload.typing_speed_wpm = Rat(150, 1)

\* the tokens of a dash-separated string, each a sequence of characters
RECURSIVE SplitAcc(_, _, _)
SplitAcc(str, cur, acc) ==
    IF str = <<>> THEN Append(acc, cur)
    ELSE IF Head(str) = "-" THEN SplitAcc(Tail(str), <<>>, Append(acc, cur))
    ELSE SplitAcc(Tail(str), Append(cur, Head(str)), acc)

SplitDash(str) == IF str = <<>> THEN <<>> ELSE SplitAcc(str, <<>>, <<>>)

\* the number a token spells, 0 when it is no single digit 1..9
TokenValue(tok) ==
    IF Len(tok) # 1 THEN 0
    ELSE CASE tok[1] = "1" -> 1 [] tok[1] = "2" -> 2 [] tok[1] = "3" -> 3
           [] tok[1] = "4" -> 4 [] tok[1] = "5" -> 5 [] tok[1] = "6" -> 6
           [] tok[1] = "7" -> 7 [] tok[1] = "8" -> 8 [] tok[1] = "9" -> 9
           [] OTHER -> 0

\* clamp(floor(d / 50), 1, 9) stated by its defining inequalities
BucketOf(d) ==
    IF d < 100 THEN 1
    ELSE IF d >= 450 THEN 9
    ELSE CHOOSE k \in 2..8 : 50 * k <= d /\ d < 50 * (k + 1)

\* C2: the challenge_sequence of a login request spells, in keystroke order
\* and separated by "-", the buckets clamp(floor(interval / 50), 1, 9) of the
\* first min(n - 1, 10) keystroke intervals; it is empty with fewer than two
\* keystrokes; keystrokes at 0, 150, 300, 450, 600 give "3-3-3-3".
C2_ChallengeSequenceExact ==
    loginReq.kind = "login" =>
        LET ks == loginMetrics.keystrokes
            n == Len(ks)
            str == loginReq.payload.challenge_sequence
            toks == SplitDash(str)
        IN  /\ n < 2 => str = <<>>
            /\ n >= 2 =>
                 /\ Len(toks) = (IF n - 1 < 10 THEN n - 1 ELSE 10)
                 /\ \A i \in 1..Len(toks) :
                      /\ TokenValue(toks[i]) \in 1..9
                      /\ TokenValue(toks[i]) = BucketOf(ks[i + 1].timestamp - ks[i].timestamp)
            /\ ks = Run(5, 0, 150) => str = <<"3", "-", "3", "-", "3", "-", "3">>

\* a request built from more than eleven keystrokes with a backward clock
\* step: ten tokens, both clamps used
C2_Witness ==
    /\ loginReq.kind = "login"
    /\ Len(loginMetrics.keystrokes) > 11
    /\ LET toks == SplitDash(loginReq.payload.challenge_sequence)
       IN  /\ Len(toks) = 10
           /\ \E i, j \in 1..10 : TokenValue(toks[i]) = 1 /\ TokenValue(toks[j]) = 9

\* C3: the step that handles a rejected login (403 or any other failure)
\* leaves localStorage and the route as they are and shows a message, for 403
\* the server's detail or "Login blocked: High risk detected"; authToken is
\* only ever set to the credential of a successful login response.
C3_RejectionStoresNothing ==
    [][/\ (loginRes.kind = "error" /\ loginRes' = NoMsg) =>
            /\ localStorage' = localStorage
            /\ location' = location
            /\ error' # ""
            /\ loginRes.status = 403 =>
                 error' = (IF loginRes.detail \in {NullStr, ""}
                           THEN "Login blocked: High risk detected"
                           ELSE loginRes.detail)
       /\ (localStorage'.authToken # localStorage.authToken
              /\ localStorage'.authToken # NullNum) =>
            /\ loginRes.kind = "ok"
            /\ localStorage'.authToken = loginRes.access_token]_vars

\* a high-risk denial without detail has been handled: the fallback message
\* is shown, nothing is stored, the page is still /login and the attempt is
\* in the event store
C3_Witness ==
    /\ error = "Login blocked: High risk detected"
    /\ ~loading
    /\ lp = "ready"
    /\ location = "/login"
    /\ localStorage.authToken = NullNum
    /\ localStorage.finsightCurrentUser = NullStr
    /\ \E i \in DOMAIN eventStore : eventStore[i].outcome = "denied"

\* C4: ProtectedRoute renders its children only when checkAuth read a stored
\* token and getCurrentUser succeeded for it; until the check has answered it
\* renders the loading screen; without a token or after a failed check it
\* redirects to /login, and after a failed check localStorage holds neither
\* authToken nor finsightCurrentUser.
C4_GuardedRendering ==
    /\ ProtectedView = "children" =>
         prToken # NullNum /\ prCheck = "ok" /\ prToken \in sessions
    /\ pr \in {"effect", "checking"} => ProtectedView = "loading"
    /\ (pr = "done" /\ (prToken = NullNum \/ prCheck = "failed")) =>
         ProtectedView = "redirect"
    /\ prCheck = "failed" =>
         /\ localStorage.authToken = NullNum
         /\ localStorage.finsightCurrentUser = NullStr

\* the children are rendered for the credential of a login of this visit
C4_Witness ==
    /\ ProtectedView = "children"
    /\ prCheck = "ok"
    /\ prToken = localStorage.authToken
    /\ prToken # 0

\* C5: the events buffer of RealtimeEventsPanel never holds two entries with
\* the same id, whatever poll responses were applied and in whatever order
\* (the ids within one response are distinct); it never exceeds its cap.
C5_BufferHasNoDuplicates ==
    /\ \A i, j \in DOMAIN events : events[i].id = events[j].id => i = j
    /\ Len(events) <= BufferCap

\* the response of an earlier poll was merged after that of a later one: it
\* brought an event that was already in the buffer and one that was not
C5_Witness ==
    /\ lastMerge.seq < lastMerge.maxSeq
    /\ lastMerge.dups > 0
    /\ lastMerge.fresh > 0
    /\ Len(events) = 3

\* the events a read with cursor since must choose from
NewerThan(store, since) == {i \in DOMAIN store : store[i].created_at > since}

\* C6: the answer to a recent-events read with cursor since and limit holds
\* only events strictly newer than since, oldest first, at most limit of
\* them, and they are the oldest such events of the store: all of them when
\* there are no more than limit.
C6_RecentEventsContract ==
    [][\A r \in pollRes' \ pollRes :
         LET newer == NewerThan(eventStore, r.since)
         IN  /\ Len(r.items) <= r.limit
             /\ \A k \in DOMAIN r.items :
                  /\ r.items[k].created_at > r.since
                  /\ \E i \in newer : eventStore[i] = r.items[k]
             /\ \A k, l \in DOMAIN r.items :
                  k < l => /\ r.items[k].id < r.items[l].id
                           /\ r.items[k].created_at <= r.items[l].created_at
             /\ Len(r.items) = Min(Cardinality(newer), r.limit)
             /\ \A i \in newer :
                  (\A k \in DOMAIN r.items : r.items[k] # eventStore[i]) =>
                     \A k \in DOMAIN r.items : r.items[k].id < eventStore[i].id
    ]_vars

\* two answers in flight: one to a read whose cursor is older than both
\* events of the store and holds exactly the two, oldest first; one to a
\* read whose cursor is the time of the newer event and is empty
C6_Witness ==
    /\ Len(eventStore) = 2
    /\ eventStore[1].created_at < eventStore[2].created_at
    /\ \E r1, r2 \in pollRes :
         /\ r1.since < eventStore[1].created_at
         /\ r1.items = eventStore
         /\ r2.since = eventStore[2].created_at
         /\ r2.items = <<>>

\* an undelivered event can still be delivered: a later loadEvents call, a
\* request in flight or an answer in flight can bring it
Deliverable(e) ==
    \/ e.created_at > Since(capturedLastUpdate, now)
    \/ \E r \in pollReqs : r.params.since = NullNum \/ e.created_at > r.params.since
    \/ \E r \in pollRes : e.id \in Ids(r.items)

\* C7: no event is missed by the polling client.  Every LoginEvent appended
\* while the panel is polling, at most PollLimit of them between two polls,
\* is eventually put into the buffer; so at no time is there an event that
\* was never put into the buffer and that no poll can bring any more.
C7_NoEventMissed ==
    panel = "polling" =>
        \A i \in DOMAIN eventStore :
            eventStore[i].id \in seenIds \/ Deliverable(eventStore[i])

\* C8: every submission sends the login request, whatever the platform
\* lookups yield, with the nine payload fields and with "EN", 1 and "UTC" in
\* place of a language, tab count or time zone that is missing.
C8_CaptureNeverFails ==
    [][loginAttempts' = loginAttempts + 1 =>
         /\ loginReq'.kind = "login"
         /\ DOMAIN loginReq'.payload =
              {"password_length", "used_special_characters", "keyboard_language",
               "login_attempts", "was_capslock_on", "browser_tab_count",
               "challenge_sequence", "timezone", "typing_speed_wpm"}
         /\ env.language \in {"", "throws"} => loginReq'.payload.keyboard_language = "EN"
         /\ env.tabCount \in {NullStr, "abc"} => loginReq'.payload.browser_tab_count = 1
         /\ env.timeZone \in {"", "throws"} => loginReq'.payload.timezone = "UTC"]_vars

\* C9 as claimed: every scored attempt of level low or medium is answered
\* with a session credential.
C9_LowMediumGetCredential ==
    (loginRes.kind # "none" /\ loginRes.risk_level \in {"low", "medium"}) =>
        loginRes.kind = "ok"

\* C9, amended: the decision recorded for an attempt depends on its risk
\* level alone (high: denied, low and medium: allowed); a low or medium
\* attempt with valid credentials is answered with a session credential, a
\* high attempt with 403 and no new session; the step that handles a
\* rejection sends no request, so a new attempt needs a new submission.
C9_AccessDecision ==
    [][/\ (loginReq.kind = "login" /\ loginRes'.kind # "none"
              /\ loginRes'.risk_level # NullStr) =>
            /\ eventStore' # eventStore
            /\ eventStore'[Len(eventStore')].outcome =
                 (IF loginRes'.risk_level = "high" THEN "denied" ELSE "allowed")
            /\ (loginRes'.risk_level \in {"low", "medium"}
                   /\ loginReq.username \in Users /\ loginReq.password = <<"a">>) =>
                 /\ loginRes'.kind = "ok"
                 /\ loginRes'.access_token \in sessions'
            /\ loginRes'.risk_level = "high" =>
                 /\ loginRes'.kind = "error"
                 /\ loginRes'.status = 403
                 /\ sessions' = sessions
       /\ (loginRes.kind = "error" /\ loginRes' = NoMsg) =>
            /\ loginReq' = NoMsg
            /\ reqCount' = reqCount
       /\ reqCount' # reqCount => loginAttempts' = loginAttempts + 1]_vars

\* after a denial was shown the user submits again, and that second attempt
\* of medium risk is answered with a credential
C9_Witness ==
    /\ loginRes.kind = "ok"
    /\ loginRes.risk_level = "medium"
    /\ loginRes.rid = 2
    /\ loginAttempts = 2
    /\ \E i \in DOMAIN eventStore :
         eventStore[i].attempt = 1 /\ eventStore[i].outcome = "denied"

\* C10: a scored attempt has exactly one LoginEvent and no attempt has more
\* than one; the event of a denied attempt says denied, an event says denied
\* exactly when its level is high.
C10_AuditRecord ==
    /\ \A r \in 1..reqCount :
         Cardinality({i \in DOMAIN eventStore : eventStore[i].attempt = r}) <= 1
    /\ (loginRes.kind # "none" /\ loginRes.risk_level # NullStr) =>
         /\ Cardinality({i \in DOMAIN eventStore : eventStore[i].attempt = loginRes.rid}) = 1
         /\ \A i \in DOMAIN eventStore :
              eventStore[i].attempt = loginRes.rid =>
                /\ eventStore[i].risk_level = loginRes.risk_level
                /\ eventStore[i].outcome =
                     (IF loginRes.kind = "error" /\ loginRes.status = 403
                      THEN "denied" ELSE "allowed")
    /\ \A i \in DOMAIN eventStore :
         eventStore[i].outcome = "denied" <=> eventStore[i].risk_level = "high"

\* a 403 answer in flight whose attempt is in the store as denied, next to
\* the event of an earlier allowed attempt
C10_Witness ==
    /\ loginRes.kind = "error"
    /\ loginRes.status = 403
    /\ Len(eventStore) = 2
    /\ eventStore[1].outcome = "allowed"
    /\ eventStore[2].outcome = "denied"
    /\ eventStore[2].attempt = loginRes.rid

\* the order low < medium < high
LevelRank(level) == CASE level = "low" -> 1 [] level = "medium" -> 2 [] level = "high" -> 3

\* C11: the risk level of every assessment follows from its score by the
\* fixed thresholds (below 0.34 low, from 0.34 and below 0.7 medium, from 0.7
\* high), and of two scores the larger never has the lower level.
C11_LevelMonotonic ==
    /\ \A i \in DOMAIN eventStore :
         LET e == eventStore[i]
         IN  /\ e.risk_score \in 0..100
             /\ e.risk_level = "low" <=> e.risk_score < 34
             /\ e.risk_level = "medium" <=> (34 <= e.risk_score /\ e.risk_score < 70)
             /\ e.risk_level = "high" <=> e.risk_score >= 70
    /\ \A i, j \in DOMAIN eventStore :
         eventStore[i].risk_score <= eventStore[j].risk_score =>
            LevelRank(eventStore[i].risk_level) <= LevelRank(eventStore[j].risk_level)
    /\ \A a, b \in BaseScores :
         a <= b => LevelRank(RiskLevel(a)) <= LevelRank(RiskLevel(b))

\* two recorded assessments on either side of a threshold: 0.69 is medium,
\* 0.70 is high
C11_Witness ==
    /\ Len(eventStore) = 2
    /\ eventStore[1].risk_score = 70 /\ eventStore[1].risk_level = "high"
    /\ eventStore[2].risk_score = 69 /\ eventStore[2].risk_level = "medium"


\* the speed before clamping is at least 150 wpm: len / 5 words in ms
\* milliseconds
RawAtLeast150(len, ms) == ms > 0 /\ len * 12000 >= 150 * ms

\* the timing that calculateTypingSpeed uses gives at least 150 wpm raw
BotLikeTyping ==
    LET ks == loginMetrics.keystrokes
    IN  IF Len(ks) >= 2
        THEN RawAtLeast150(Len(password), ks[Len(ks)].timestamp - ks[1].timestamp)
        ELSE /\ Truthy(loginMetrics.typing_start)
             /\ Truthy(loginMetrics.typing_end)
             /\ RawAtLeast150(Len(password),
                              loginMetrics.typing_end - loginMetrics.typing_start)

C13_LoginAttemptsCount ==
    [][/\ reqCount' # reqCount =>
            /\ reqCount' = reqCount + 1
            /\ loginReq'.kind = "login"
            /\ loginReq'.payload.login_attempts = reqCount'
            /\ loginAttempts' = loginAttempts + 1
            /\ loginReq'.payload.login_attempts = loginAttempts'
       /\ (loginRes.kind = "error" /\ loginRes' = NoMsg) => loginAttempts' = loginAttempts
       /\ (lp = "ready" /\ lp' = "ready") => loginAttempts' >= loginAttempts]_vars

\* the second request of the page is in flight with login_attempts = 2,
\* after the first attempt was denied and its message shown
C13_Witness ==
    /\ loginReq.kind = "login"
    /\ loginReq.rid = 2
    /\ loginReq.payload.login_attempts = 2
    /\ Len(eventStore) = 1
    /\ eventStore[1].attempt = 1
    /\ eventStore[1].outcome = "denied"


\* C14: the browser_tab_count of a submitted payload is the cached tab
\* counter (localStorage browserTabCount) when that is a positive integer,
\* and 1 otherwise.
C14_TabCountFromCache ==
    loginReq.kind = "login" =>
        loginReq.payload.browser_tab_count =
            (CASE env.tabCount = "3" -> 3
               [] env.tabCount \in {NullStr, "abc"} -> 1)


\* C15 as claimed: the challenge_sequence of every submitted payload has
\* between 1 and 10 tokens.
C15_OneToTenTokens ==
    loginReq.kind = "login" =>
        Len(SplitDash(loginReq.payload.challenge_sequence)) \in 1..10

\* C15, amended: the challenge_sequence of every submitted payload has
\* between 0 and 10 tokens, each a digit 1..9; it has no token exactly when
\* fewer than 2 keystrokes were recorded.
C15_ZeroToTenTokens ==
    loginReq.kind = "login" =>
        LET toks == SplitDash(loginReq.payload.challenge_sequence)
        IN  /\ Len(toks) \in 0..10
            /\ \A i \in DOMAIN toks : TokenValue(toks[i]) \in 1..9
            /\ Len(toks) = 0 <=> Len(loginMetrics.keystrokes) < 2

\* a request of a login with one recorded keystroke: the sequence is empty
C15_Witness ==
    /\ loginReq.kind = "login"
    /\ Len(loginMetrics.keystrokes) = 1
    /\ loginReq.payload.challenge_sequence = <<>>


\* record() calls that have completed
Completed == LET RECURSIVE Sum(_)
                 Sum(n) == IF n = 0 THEN 0 ELSE writers[n].done + Sum(n - 1)
             IN  Sum(MaxWriters)

\* C16: concurrent record() calls lose no write and get distinct, growing
\* ids: the store holds exactly one row per completed call, no two rows and
\* no two calls in progress share an id, and a call that began after another
\* had completed has the larger id.
C16_ConcurrentAppends ==
    /\ Len(eventStore) = Completed
    /\ \A i, j \in DOMAIN eventStore : eventStore[i].id = eventStore[j].id => i = j
    /\ \A w \in Writers :
         writers[w].pc = "allocated" =>
            /\ writers[w].id \notin Ids(eventStore)
            /\ writers[w].id > writers[w].after
            /\ \A v \in Writers \ {w} :
                 writers[v].pc = "allocated" => writers[v].id # writers[w].id
    /\ \A i, j \in DOMAIN eventStore : i < j => eventStore[i].id < eventStore[j].id

\* the call that drew the first id is still in progress while every call of
\* the other handlers has completed: the rows with the later ids are in the store
C16_Witness ==
    /\ \E w \in Writers : writers[w].pc = "allocated" /\ writers[w].id = 1
    /\ Len(eventStore) = (MaxWriters - 1) * MaxAppends
    /\ MaxId(eventStore) = (MaxWriters - 1) * MaxAppends + 1

\* C17: the panel polls with an advancing cursor.  Every loadEvents call made
\* after a non-empty response recorded lastUpdate sends since = the lastUpdate
\* recorded last; only the calls made before that use the look-back.
C17_AdvancingCursor ==
    [][\A r \in pollReqs' \ pollReqs :
         r.params.since = (IF lastUpdate # NullNum THEN lastUpdate ELSE now - Lookback)
    ]_vars


\* C18: when a merge truncates the buffer, the events kept are the most
\* recent of the buffered and the delivered ones: no event is dropped while
\* an older one (a smaller id) is kept.
C18_KeepsMostRecent ==
    [][\A r \in pollRes \ pollRes' :
         (panel' = "polling" /\ Len(r.items) > 0) =>
            LET offered == Ids(events) \cup Ids(r.items)
                kept == Ids(events')
            IN  \A d \in offered \ kept : \A k \in kept : k > d
    ]_vars


\* C19: the events buffer never holds more than BufferCap events, whatever
\* the size and number of the responses merged, and a step that handles a
\* failed poll or an empty response leaves it as it is.
C19_BufferBounded ==
    [][/\ Len(events') <= BufferCap
       /\ pollReqs' \subseteq pollReqs /\ pollReqs' # pollReqs /\ pollRes' = pollRes
            => events' = events
       /\ \A r \in pollRes \ pollRes' : Len(r.items) = 0 => events' = events
    ]_vars

\* a merge has cut the buffer to its cap: more events were put into the
\* buffer over time than it holds now
C19_Witness ==
    /\ Len(events) = BufferCap
    /\ lastMerge.fresh > 0
    /\ Cardinality(seenIds) > BufferCap


\* two fractions are the same number
RatEq(a, b) == a[1] * b[2] = b[1] * a[2]

\* len / 5 words in ms milliseconds as words per minute, clamped to [30, 150]
ExpectedWpm(len, ms) ==
    IF len * 12000 <= 30 * ms THEN Rat(30, 1)
    ELSE IF len * 12000 >= 150 * ms THEN Rat(150, 1)
    ELSE Rat(len * 12000, ms)

\* C20: when the keystrokes give no speed (fewer than 2 timestamps, or last
\* - first <= 0), calculateTypingSpeed uses the typing_start / typing_end
\* pair with the same clamped formula whenever the pair is set and its
\* duration is positive, and returns 60 only when the pair gives none either.
C20_FallbackToTypingPair ==
    lp = "ready" =>
        LET ks == loginMetrics.keystrokes
            start == loginMetrics.typing_start
            end == loginMetrics.typing_end
            unusable == Len(ks) < 2 \/ ks[Len(ks)].timestamp - ks[1].timestamp <= 0
            pairUsable == start # NullNum /\ end # NullNum /\ end - start > 0
        IN  unusable =>
               RatEq(calculateTypingSpeed(loginMetrics, password),
                     IF pairUsable THEN ExpectedWpm(Len(password), end - start)
                     ELSE Rat(60, 1))



\* ---- C21, C22: caps-lock detection
KeyHandled == keyEvent # NoKey
SignalOf(e) == e.capsLock = "true"
CaseShiftMismatch(e) ==
    \/ e.keyCode >= 65 /\ e.keyCode <= 90 /\ ~e.shiftKey
    \/ e.keyCode >= 97 /\ e.keyCode <= 122 /\ e.shiftKey

\* C21: after a key event that carries an explicit CapsLock modifier state,
\* caps_lock_detected equals that state.
C21_ExplicitSignalDecides ==
    (KeyHandled /\ keyEvent.capsLock # "undefined")
        => loginMetrics.caps_lock_detected = SignalOf(keyEvent)

\* C22: after a key event without an explicit modifier state whose character
\* is an unshifted uppercase letter or a shifted lowercase letter,
\* caps_lock_detected is true.
C22_MismatchSetsCapsLock ==
    (KeyHandled /\ keyEvent.capsLock = "undefined" /\ CaseShiftMismatch(keyEvent))
        => loginMetrics.caps_lock_detected = TRUE


\* ---- C23: the periodic refresh and the selected user
\* a mount or interval loadData call completes in a panel that stays mounted
RefreshCompletes == ztPanel = "mounted" /\ ztPanel' = "mounted" /\ ztLoads' < ztLoads

\* C23: once a user is selected, a completing periodic refresh leaves
\* selectedUser as it is.
C23_RefreshKeepsSelection ==
    [][(RefreshCompletes /\ selectedUser # "") => selectedUser' = selectedUser]_vars

\* ---- C24: logout and a ZeroTrustPanel login in flight
NothingStored == localStorage = [authToken |-> NullNum, finsightCurrentUser |-> NullStr]
LoginPageLoginSucceeds == loginRes.kind = "ok" /\ loginRes' = NoMsg

\* C24: on /login with neither item stored (the state handleLogout leaves),
\* the two items stay absent until a LoginPage login succeeds.
C24_LoggedOutStaysEmpty ==
    [][(location = "/login" /\ NothingStored /\ ~LoginPageLoginSucceeds)
           => localStorage' = localStorage]_vars

\* ---- C25: the stored user and the stored credential
\* the user a credential was issued to: the user directory has one login
\* user, and the credential of the earlier visit is hers too
IssuedTo(token) == CHOOSE u \in Users : TRUE

\* C25: when both items are stored, finsightCurrentUser is the user the
\* stored authToken was issued to.
C25_StoredUserOwnsCredential ==
    (localStorage.authToken # NullNum /\ localStorage.finsightCurrentUser # NullStr)
        => localStorage.finsightCurrentUser = IssuedTo(localStorage.authToken)


\* ---- C26: samples of the displayed department
\* C26: every sample of history was fetched for the department that is
\* displayed.
C26_HistoryOfDisplayedDepartment ==
    dept # NullStr => \A i \in 1..Len(history) : history[i] = dept

\* ---- C27: one deployment per recommendation at a time
\* C27: while a deployRecommendation request of a recommendation is in
\* flight, its deploy button is not enabled and no second request of the
\* same recommendation is in flight.
C27_NoConcurrentDeployOfSameRecommendation ==
    \A r \in RecIds :
        deployCalls[r].deploy > 0 => (~DeployEnabled(r) /\ deployCalls[r].deploy = 1)


\* ---- C28: feedback is submitted once
\* C28: submitFeedback is called only when no earlier call is still in
\* flight and none has succeeded.
C28_FeedbackSubmittedOnce ==
    [][feedbackPending' > feedbackPending => (feedbackPending = 0 /\ feedbackSaved = 0)]_vars

\* ---- C30: a load ends its loading state
\* C30: whenever loading is true it eventually becomes false again.
C30_LoadingEnds == insLoading ~> ~insLoading


\* ---- C29: an invalid stored credential does not make navigation loop
InvalidTokenStored == localStorage.authToken # NullNum /\ localStorage.authToken \notin sessions
SettledOnLogin == location = "/login" /\ lp = "ready" /\ localStorage.authToken = NullNum

\* C29: with a stored authToken that the backend does not accept, the app
\* reaches /login with no authToken stored, and from there it leaves /login
\* only by a successful login.
C29_SettlesOnLogin ==
    /\ InvalidTokenStored ~> SettledOnLogin
    /\ [][(SettledOnLogin /\ ~LoginPageLoginSucceeds) => SettledOnLogin']_vars

C29_Witness ==
    /\ pr = "done"
    /\ prCheck = "failed"
    /\ prToken # NullNum
    /\ prToken \notin sessions
    /\ localStorage.authToken = NullNum

====
